---- MODULE Spec2Model ----
(***************************************************************************)
(* Default-agents reconciliation engine of LibreChat                        *)
(* (api/server/services/DefaultAgents/sync.js and its helpers).             *)
(*                                                                          *)
(* JavaScript objects are records whose DOMAIN is the set of keys that are  *)
(* defined; a missing key reads as `undefined`.  A sync pass is split into  *)
(* its loop iterations: SyncBegin / SyncNoAgents, one SyncNext per declared *)
(* agent, then SyncCleanup.  Store calls can throw: every step draws the    *)
(* store call that throws (if any) from a small set.                        *)
(***************************************************************************)
EXTENDS Integers, Sequences, FiniteSets, TLC

VARIABLES
  agents,     \* Agent collection: <<id, author>> -> agent record
  actions,    \* Action collection: <<action_id, user>> -> action record
  config,     \* defaultAgents list of the pass in progress (or last pass)
  pc,         \* "idle" | "sync" | "done"
  idx,        \* loop variable i of syncDefaultAgents (1-based)
  results,    \* the results object of syncDefaultAgents
  log,        \* history: per attempted agent of this pass, <<id, ok>>
  last,       \* history: what the last syncAgent call saw and did
  stored0,    \* history: id -> number of versions, of the system-owned agents when the pass began
  snap0,      \* history: was the pass before this one clean, and was it run with the same list
  faults,     \* history: number of store calls that threw during this pass
  writes,     \* history: store writes issued during this pass
  cleaned,    \* history: what cleanupRemovedAgents did in this pass, and which of its calls threw
  given,      \* history: the kind of value config.endpoints.agents.defaultAgents held
  icons,      \* number of uuidv4() calls made so far
  crash0,     \* history: the store when the interrupted pass began
  probe       \* argument and result of the pure function under study; in
              \* SharedIdSpec, which of two records with one id is matched first

vars == <<agents, actions, config, pc, idx, results, log, last, stored0, snap0,
          faults, writes, cleaned, given, icons, crash0, probe>>

----------------------------------------------------------------------------
(* Bounds *)

\* a pass may begin only while every version history is shorter than this
MaxVersions == 2

\* at most this many store calls throw during one pass
MaxFaults == 1

\* a path handed to loadConfigFile has at most this many segments
MaxSegments == 3

\* a pass may begin only while fewer icon files than this have been processed
MaxIcons == 1

----------------------------------------------------------------------------
(* JavaScript object helpers *)

Has(o, k) == k \in DOMAIN o

\* truthiness of a string-valued property: defined and not the empty string
Truthy(o, k) == Has(o, k) /\ o[k] # ""

\* truthiness of a path-valued property: defined and not the empty path
TruthyPath(o, k) == Has(o, k) /\ o[k] # <<>>

\* Object.assign(target, source) / object spread
Assign(target, source) ==
  [k \in DOMAIN target \cup DOMAIN source |->
     IF k \in DOMAIN source THEN source[k] ELSE target[k]]

Put(f, k, v) == [x \in DOMAIN f \cup {k} |-> IF x = k THEN v ELSE f[x]]

Drop(f, k) == [x \in DOMAIN f \ {k} |-> f[x]]

Last(s) == s[Len(s)]

\* a JSON value: [t |-> "str", s |-> text], [t |-> "arr", items |-> sequence of
\* values], [t |-> "obj", kv |-> sequence of <<key, value>>] in the order the
\* keys were inserted, or [t |-> "undef"]
Str(s) == [t |-> "str", s |-> s]

Arr(items) == [t |-> "arr", items |-> items]

Obj(kv) == [t |-> "obj", kv |-> kv]

Undef == [t |-> "undef"]

\* truthiness of a property holding a JSON value: defined, and neither undefined
\* nor the empty string (objects and arrays are truthy, empty ones included)
TruthyValue(o, k) == Has(o, k) /\ o[k] \notin {Undef, Str("")}

----------------------------------------------------------------------------
(* Environment: owner sentinel, files, encryption collaborator *)

getDefaultObjectId == "000000000000000000000000"

OtherUser == "user1"

\* the JavaScript value undefined, where an object is expected
undefined == <<>>

\* the JavaScript value null, as an entry of the declared list
null == [isNull |-> TRUE]

\* a path is the sequence of its segments; an absolute path begins with "/"
ConfigDir == <<"/", "srv", "cfg">>

\* a text of n characters
RECURSIVE Long(_)
Long(n) ==
  IF n = 0 THEN ""
  ELSE IF n % 2 = 0 THEN Long(n \div 2) \o Long(n \div 2)
  ELSE "x" \o Long(n - 1)

\* the content of the files named after what they hold
FileContents ==
  [name \in {"a.md", "a.png", "blank.md", "max.md", "over.md"} |->
     IF name = "a.md" THEN "A"
     ELSE IF name = "a.png" THEN "PNG"
     ELSE IF name = "blank.md" THEN " "
     ELSE IF name = "max.md" THEN Long(10000)
     ELSE Long(10001)]

\* the files of the machine: absolute path -> content.  Two of them lie
\* outside the configuration directory
Files ==
  [p \in {<<"/", "srv", "cfg", "prompts", "a.md">>,
          <<"/", "srv", "cfg", "prompts", "blank.md">>,
          <<"/", "srv", "cfg", "prompts", "max.md">>,
          <<"/", "srv", "cfg", "prompts", "over.md">>,
          <<"/", "srv", "cfg", "icons", "a.png">>,
          <<"/", "srv", "cfg", "secret">>,
          <<"/", "srv", "secret">>,
          <<"/", "srv", "cfgx", "secret">>} |->
     IF p[Len(p)] \in DOMAIN FileContents THEN FileContents[p[Len(p)]] ELSE "S"]

\* encryptV2 over the URI-encoded value: an injective map that never returns its
\* argument
encryptSensitiveValue(v) == "enc(" \o v \o ")"

----------------------------------------------------------------------------
(* Validation (utils/files/validateConfigFile.js) *)

\* an action spec text is modelled by what it parses to: a record with
\* parses = FALSE when neither YAML nor JSON accepts it, else isObject (the
\* parsed value is a non-null object) and the parsed object's properties, each
\* a JSON value
validateOpenAPISpec(spec) ==
  /\ spec.isObject
  /\ (TruthyValue(spec, "openapi") \/ TruthyValue(spec, "swagger"))
  /\ TruthyValue(spec, "info")
  /\ (TruthyValue(spec, "paths") \/ TruthyValue(spec, "components"))

validateActionSpec(specContent) ==
  /\ specContent.parses
  /\ validateOpenAPISpec(specContent)

maxLength == 10000

\* the strings that trim() empties; every instructions value of the model is
\* a string
Blank == {"", " "}

\* the variant without the limit on the length
validateInstructions_NoLimit(instructions) == instructions \notin Blank

validateInstructions(instructions) ==
  /\ instructions \notin Blank
  /\ Len(instructions) <= maxLength

validAuthTypes == {"service_http", "oauth", "none"}

validateActionConfig(actionConfig) ==
  /\ Truthy(actionConfig, "domain")
  /\ (Has(actionConfig, "spec") \/ TruthyPath(actionConfig, "specFile"))
  /\ Has(actionConfig, "auth") =>
       /\ Truthy(actionConfig.auth, "type")
       /\ actionConfig.auth.type \in validAuthTypes
       /\ actionConfig.auth.type = "oauth" =>
            /\ Truthy(actionConfig.auth, "client_url")
            /\ Truthy(actionConfig.auth, "authorization_url")

requiredFields == {"id", "name", "provider", "model"}

\* the variant that accepts every declaration
validateAgentConfig_Lenient(agentConfig) == TRUE

validateAgentConfig(agentConfig) ==
  /\ \A field \in requiredFields : Truthy(agentConfig, field)
  /\ (Truthy(agentConfig, "instructions") \/ TruthyPath(agentConfig, "instructionsFile"))
  /\ Has(agentConfig, "actions") =>
       \A n \in 1..Len(agentConfig.actions) : validateActionConfig(agentConfig.actions[n])

----------------------------------------------------------------------------
(* Hashing (services/DefaultAgents/hashUtils.js) *)

\* sortObject + JSON.stringify + SHA-256: JSON.stringify drops the keys whose
\* value is undefined, key order is normalised, and the digest is taken to be
\* collision free, so the hash is the set of defined key/value pairs
calculateHash(data) == [tag |-> "sha256", of |-> data]

copiedFields ==
  {"id", "name", "description", "provider", "model", "category",
   "model_parameters", "recursion_limit", "tools", "tool_resources"}

\* the instructions argument is undefined or [text |-> s]; the avatar argument
\* is undefined or [filepath |-> p, source |-> t]
\* the variant that leaves the instructions out of the hash
calculateAgentConfigHash_NoInstructions(agentConfig, instructions, avatar) ==
  calculateHash([k \in {f \in copiedFields : Has(agentConfig, f)} |-> agentConfig[k]])

calculateAgentConfigHash(agentConfig, instructions, avatar) ==
  LET base == [k \in {f \in copiedFields : Has(agentConfig, f)} |-> agentConfig[k]]
      withInstr ==
        IF Truthy(instructions, "text") THEN Put(base, "instructions", instructions.text)
        ELSE IF Has(agentConfig, "instructions")
          THEN Put(base, "instructions", agentConfig.instructions)
          ELSE base
      hashData ==
        IF Truthy(avatar, "filepath") THEN Put(withInstr, "avatar_filepath", avatar.filepath)
        ELSE IF Has(agentConfig, "icon")
          THEN Put(withInstr, "avatar_filepath", agentConfig.icon)
          ELSE withInstr
  IN calculateHash(hashData)

hashesEqual(hash1, hash2) == hash1 = hash2

\* the variant whose result also depends on the number of stored actions
generateActionId_Counting(domain, agentId) ==
  domain \o "_" \o agentId \o "_" \o ToString(Cardinality(DOMAIN actions))

generateActionId(domain, agentId) == domain \o "_" \o agentId

----------------------------------------------------------------------------
(* Hashing, on values that keep the order of their keys *)

\* obj[key]
Get(obj, key) ==
  IF \E n \in 1..Len(obj.kv) : obj.kv[n][1] = key
    THEN obj.kv[CHOOSE n \in 1..Len(obj.kv) : obj.kv[n][1] = key][2]
    ELSE Undef

\* the keys of the model in the order Array.prototype.sort puts them
KeyOrder ==
  <<"actions", "avatar_filepath", "category", "description", "domain", "files", "id",
    "instructions", "max_tokens", "model", "model_parameters", "name", "provider",
    "recursion_limit", "search", "temperature", "tool_resources", "tools">>

KeyRank(key) == CHOOSE n \in 1..Len(KeyOrder) : KeyOrder[n] = key

\* the entries of an object ordered by key
SortedEntries(kv) ==
  LET entries == {kv[n] : n \in 1..Len(kv)}
  IN [i \in 1..Len(kv) |->
        CHOOSE e \in entries :
          Cardinality({f \in entries : KeyRank(f[1]) < KeyRank(e[1])}) = i - 1]

\* the variant that leaves the keys in the order it finds them
sortObject_Identity(obj) == obj

RECURSIVE sortObject(_)
sortObject(obj) ==
  IF obj.t = "arr"
    THEN Arr([n \in 1..Len(obj.items) |-> sortObject(obj.items[n])])
  ELSE IF obj.t = "obj"
    THEN Obj(SortedEntries([n \in 1..Len(obj.kv) |->
                              <<obj.kv[n][1], sortObject(obj.kv[n][2])>>]))
  ELSE obj

\* JSON.stringify: the members whose value is undefined are left out
RECURSIVE stringify(_)
RECURSIVE stringifyItems(_, _)
RECURSIVE stringifyEntries(_, _)
stringify(v) ==
  IF v.t = "str" THEN "'" \o v.s \o "'"
  ELSE IF v.t = "arr" THEN "[" \o stringifyItems(v.items, TRUE) \o "]"
  ELSE IF v.t = "obj" THEN "{" \o stringifyEntries(v.kv, TRUE) \o "}"
  ELSE "null"

stringifyItems(items, first) ==
  IF items = <<>> THEN ""
  ELSE (IF first THEN "" ELSE ",") \o stringify(Head(items))
         \o stringifyItems(Tail(items), FALSE)

stringifyEntries(kv, first) ==
  IF kv = <<>> THEN ""
  ELSE IF Head(kv)[2].t = "undef" THEN stringifyEntries(Tail(kv), first)
  ELSE (IF first THEN "" ELSE ",") \o "'" \o Head(kv)[1] \o "':" \o stringify(Head(kv)[2])
         \o stringifyEntries(Tail(kv), FALSE)

\* the digest is taken to be collision free
sha256(jsonString) == "sha256(" \o jsonString \o ")"

calculateHashJson(data) == sha256(stringify(sortObject(data)))

\* a || b on values
OrElse(a, b) == IF a.t = "undef" \/ a = Str("") THEN b ELSE a

\* hashData of calculateAgentConfigHash, built key by key from the
\* declaration; avatar_filepath is avatar?.filepath
hashData(agentConfig, instructions, avatar_filepath) ==
  Obj(<<<<"id", Get(agentConfig, "id")>>,
        <<"name", Get(agentConfig, "name")>>,
        <<"description", Get(agentConfig, "description")>>,
        <<"instructions", OrElse(instructions, Get(agentConfig, "instructions"))>>,
        <<"provider", Get(agentConfig, "provider")>>,
        <<"model", Get(agentConfig, "model")>>,
        <<"category", Get(agentConfig, "category")>>,
        <<"model_parameters", Get(agentConfig, "model_parameters")>>,
        <<"recursion_limit", Get(agentConfig, "recursion_limit")>>,
        <<"tools", Get(agentConfig, "tools")>>,
        <<"tool_resources", Get(agentConfig, "tool_resources")>>,
        <<"avatar_filepath", OrElse(avatar_filepath, Get(agentConfig, "icon"))>>>>)

\* the variant that hashes the actions as well
calculateAgentConfigHashJson_WithActions(agentConfig, instructions, avatar_filepath) ==
  calculateHashJson(Obj(hashData(agentConfig, instructions, avatar_filepath).kv
                        \o <<<<"actions", Get(agentConfig, "actions")>>>>))

calculateAgentConfigHashJson(agentConfig, instructions, avatar_filepath) ==
  calculateHashJson(hashData(agentConfig, instructions, avatar_filepath))

----------------------------------------------------------------------------
(* The store (models/Agent, models/Action): one call is one atomic step *)

AgentKey(id, author) == <<id, author>>

ActionKey(action_id, user) == <<action_id, user>>

\* getAgent({id, author}) finds a record
agentExists(ag, id, author) == AgentKey(id, author) \in DOMAIN ag

getAgent(ag, id, author) == ag[AgentKey(id, author)]

\* createAgent(fields): the record, with a first version that carries
\* version_metadata
createAgent(ag, fields) ==
  Put(ag, AgentKey(fields.id, fields.author),
      Assign(Drop(fields, "version_metadata"),
             [versions |-> <<[version_metadata |-> fields.version_metadata]>>]))

\* the record a selector that names only the id matches: the only record with
\* that id or, of several, the one the collection yields first (probe.first
\* names its owner)
matchById(ag, id) ==
  LET matching == {k \in DOMAIN ag : k[1] = id}
  IN IF Cardinality(matching) = 1
       THEN CHOOSE k \in matching : TRUE
       ELSE CHOOSE k \in matching : k[2] = probe.first

\* updateAgent({id}, fields): the fields are merged into the record with that
\* id; a version is appended when the update carries version_metadata
updateAgent(ag, id, fields) ==
  LET key == matchById(ag, id)
      old == ag[key]
      merged == Assign(old, Drop(fields, "version_metadata"))
      new == IF Has(fields, "version_metadata")
               THEN [merged EXCEPT !.versions =
                       Append(@, [version_metadata |-> fields.version_metadata])]
               ELSE merged
  IN [ag EXCEPT ![key] = new]

deleteAgent(ag, id, author) == Drop(ag, AgentKey(id, author))

\* Agent.find({author})
findAgents(ag, author) == {k \in DOMAIN ag : k[2] = author}

\* updateAction({action_id, user}, data): upsert
updateAction(acts, action_id, user, data) == Put(acts, ActionKey(action_id, user), data)

deleteAction(acts, action_id, user) == Drop(acts, ActionKey(action_id, user))

----------------------------------------------------------------------------
(* Store calls that may throw *)

NoFault == [op |-> "none", n |-> 0]

\* the store calls of one syncAgent(agentConfig) call, any one of which may throw
SyncFaults(agentConfig) ==
  {NoFault, [op |-> "getAgent", n |-> 0], [op |-> "writeAgent", n |-> 0],
   [op |-> "linkActions", n |-> 0]}
  \cup {[op |-> "updateAction", n |-> n] :
          n \in 1..(IF Has(agentConfig, "actions") THEN Len(agentConfig.actions) ELSE 0)}

----------------------------------------------------------------------------
(* File loading (utils/files/loadConfigFile.js, sync.js) *)

\* path.isAbsolute
isAbsolute(p) == p # <<>> /\ p[1] = "/"

\* the segments left after "." and ".." are resolved
RECURSIVE normalize(_, _)
normalize(acc, rest) ==
  IF rest = <<>> THEN acc
  ELSE IF Head(rest) = ".."
    THEN normalize(IF acc = <<>> THEN acc ELSE SubSeq(acc, 1, Len(acc) - 1), Tail(rest))
  ELSE IF Head(rest) = "." THEN normalize(acc, Tail(rest))
  ELSE normalize(Append(acc, Head(rest)), Tail(rest))

\* path.resolve(from, p)
resolve(from, p) ==
  IF isAbsolute(p) THEN <<"/">> \o normalize(<<>>, Tail(p))
  ELSE <<"/">> \o normalize(<<>>, Tail(from) \o p)

\* the path as the string the code holds
RECURSIVE pathString(_)
pathString(p) ==
  IF p = <<>> THEN ""
  ELSE IF Head(p) = "/"
    THEN (IF Len(p) = 1 THEN "/" ELSE "/" \o pathString(Tail(p)))
  ELSE IF Len(p) = 1 THEN Head(p)
  ELSE Head(p) \o "/" \o pathString(Tail(p))

\* what follows a segment name in a longer segment name
SegmentTails == {"", "x"}

\* String.prototype.startsWith on the strings of two absolute paths: the
\* segments before the last one of b agree and the last one of b begins the
\* segment of p at that place
startsWith(p, b) ==
  /\ Len(p) >= Len(b)
  /\ \A n \in 1..(Len(b) - 1) : p[n] = b[n]
  /\ \E t \in SegmentTails : p[Len(b)] = b[Len(b)] \o t

\* process.env.CONFIG_PATH is not set: the configuration directory is
\* process.cwd()
resolveConfigFilePath(filePath) ==
  IF isAbsolute(filePath) THEN filePath ELSE resolve(ConfigDir, filePath)

\* TRUE when validateFilePath returns, FALSE when it throws
validateFilePath(filePath, baseDir) ==
  LET resolvedPath == resolve(ConfigDir, filePath)
      resolvedBase == resolve(ConfigDir, baseDir)
  IN isAbsolute(filePath) \/ startsWith(resolvedPath, resolvedBase)

\* a message is the sequence of the pieces it is concatenated from
Contains(message, piece) == \E n \in 1..Len(message) : message[n] = piece

\* the variant for which a missing file reads as an empty one
loadConfigFile_Lenient(filePath) ==
  [ok |-> TRUE, read |-> TRUE,
   content |-> IF resolve(ConfigDir, resolveConfigFilePath(filePath)) \in DOMAIN Files
                 THEN Files[resolve(ConfigDir, resolveConfigFilePath(filePath))]
                 ELSE "",
   error |-> <<>>]

\* the message of the error loadConfigFile throws, cause being the message of
\* the error caught
failedToLoad(filePath, cause) ==
  [ok |-> FALSE, read |-> FALSE, content |-> "",
   error |-> <<"Failed to load config file ", pathString(filePath), ": ">> \o cause]

\* the body of loadConfigFile once the path is resolved
loadResolved(filePath, resolvedPath) ==
  IF ~isAbsolute(filePath) /\ ~validateFilePath(resolvedPath, ConfigDir)
    THEN failedToLoad(filePath,
           <<"Path traversal detected", ": ", pathString(resolvedPath),
             " attempts to access files outside base directory">>)
  ELSE IF resolve(ConfigDir, resolvedPath) \notin DOMAIN Files
    THEN failedToLoad(filePath, <<"File ", "not found", ": ", pathString(resolvedPath)>>)
  ELSE [ok |-> TRUE, read |-> TRUE, content |-> Files[resolve(ConfigDir, resolvedPath)],
        error |-> <<>>]

\* loadConfigFile(filePath): read tells whether the file was read
loadConfigFile(filePath) == loadResolved(filePath, resolveConfigFilePath(filePath))

\* the n-th uuidv4() call
uuidv4 == "uuid" \o ToString(icons + 1)

\* processIconFile(iconPath, agentId): the avatar store keeps the image under
\* the file name it is handed
processIconFile(iconPath, agentId) ==
  IF resolve(ConfigDir, resolveConfigFilePath(iconPath)) \notin DOMAIN Files
    THEN [ok |-> FALSE, avatar |-> undefined,
          error |-> <<"Failed to process icon file ", pathString(iconPath), ": ",
                      "Icon file ", "not found", ": ",
                      pathString(resolveConfigFilePath(iconPath))>>]
    ELSE [ok |-> TRUE,
          avatar |-> [filepath |-> "agent-" \o agentId \o "-" \o uuidv4 \o ".png",
                      source |-> "local"],
          error |-> <<>>]

\* the instructions of loadAgentFileContent, f being what loadConfigFile
\* returned for instructionsFile
instructionsFromFile(f) ==
  IF ~f.ok THEN [ok |-> FALSE, v |-> undefined, error |-> f.error]
  ELSE [ok |-> validateInstructions(f.content), v |-> [text |-> f.content],
        error |-> <<"Invalid instructions", ": ">>]

loadInstructions(agentConfig) ==
  IF TruthyPath(agentConfig, "instructionsFile")
    THEN instructionsFromFile(loadConfigFile(agentConfig.instructionsFile))
  ELSE IF Truthy(agentConfig, "instructions")
    THEN [ok |-> validateInstructions(agentConfig.instructions),
          v |-> [text |-> agentConfig.instructions],
          error |-> <<"Invalid inline instructions", ": ">>]
  ELSE [ok |-> TRUE, v |-> undefined, error |-> <<>>]

\* the avatar of loadAgentFileContent; calls is the number of processIconFile
\* calls made
loadIcon(agentConfig) ==
  IF TruthyPath(agentConfig, "iconFile")
    THEN Assign(processIconFile(agentConfig.iconFile, agentConfig.id), [calls |-> 1])
  ELSE IF Truthy(agentConfig, "icon")
    THEN [ok |-> TRUE, avatar |-> [filepath |-> agentConfig.icon, source |-> "inline"],
          error |-> <<>>, calls |-> 0]
  ELSE [ok |-> TRUE, avatar |-> undefined, error |-> <<>>, calls |-> 0]

\* the icon is processed only when the instructions were loaded
loadedContent(instr, icon) ==
  IF ~instr.ok
    THEN [ok |-> FALSE, instructions |-> instr.v, avatar |-> undefined,
          error |-> instr.error, iconCalls |-> 0]
    ELSE [ok |-> icon.ok, instructions |-> instr.v, avatar |-> icon.avatar,
          error |-> icon.error, iconCalls |-> icon.calls]

loadAgentFileContent(agentConfig) ==
  loadedContent(loadInstructions(agentConfig), loadIcon(agentConfig))

loadActionSpec(actionConfig) ==
  IF TruthyPath(actionConfig, "specFile") THEN
    LET f == loadConfigFile(actionConfig.specFile)
    IN [ok |-> f.ok /\ validateActionSpec(f.content), spec |-> f.content]
  ELSE IF Has(actionConfig, "spec") THEN
    [ok |-> validateActionSpec(actionConfig.spec), spec |-> actionConfig.spec]
  ELSE [ok |-> FALSE, spec |-> undefined]

----------------------------------------------------------------------------
(* Action reconciliation (ActionService.js, sync.js) *)

encryptMetadata(metadata) ==
  IF Has(metadata, "auth") /\ Has(metadata.auth, "type")
       /\ metadata.auth.type = "service_http" THEN
    IF Truthy(metadata, "api_key")
      THEN [metadata EXCEPT !.api_key = encryptSensitiveValue(@)]
      ELSE metadata
  ELSE IF Has(metadata, "auth") /\ Has(metadata.auth, "type")
            /\ metadata.auth.type = "oauth" THEN
    LET m1 == IF Truthy(metadata, "oauth_client_id")
                THEN [metadata EXCEPT !.oauth_client_id = encryptSensitiveValue(@)]
                ELSE metadata
    IN IF Truthy(m1, "oauth_client_secret")
         THEN [m1 EXCEPT !.oauth_client_secret = encryptSensitiveValue(@)]
         ELSE m1
  ELSE metadata

\* the metadata syncActions builds for one declared action, before encryption
actionMetadata(actionConfig, spec) ==
  LET m0 == [domain |-> actionConfig.domain, raw_spec |-> spec]
      m1 == IF Truthy(actionConfig, "privacy_policy_url")
              THEN Put(m0, "privacy_policy_url", actionConfig.privacy_policy_url)
              ELSE m0
  IN IF Has(actionConfig, "auth") THEN Assign(m1, actionConfig.auth) ELSE m1

\* the loop of syncActions from the n-th declared action on; calls counts the
\* updateAction calls issued
RECURSIVE syncActionsFrom(_, _, _, _, _, _, _)
syncActionsFrom(agentId, actionsConfig, defaultObjectId, n, acts, synced, fault) ==
  IF n > Len(actionsConfig)
    THEN [ok |-> TRUE, threw |-> FALSE, actions |-> acts, synced |-> synced, calls |-> n - 1]
  ELSE
    LET actionConfig == actionsConfig[n]
        loaded == loadActionSpec(actionConfig)
        actionId == generateActionId(actionConfig.domain, agentId)
        actionData == [action_id |-> actionId,
                       user |-> defaultObjectId,
                       agent_id |-> agentId,
                       type |-> "action_prototype",
                       metadata |-> encryptMetadata(actionMetadata(actionConfig, loaded.spec))]
    IN IF ~loaded.ok
         THEN [ok |-> FALSE, threw |-> FALSE, actions |-> acts, synced |-> synced,
               calls |-> n - 1]
       ELSE IF fault.op = "updateAction" /\ fault.n = n
         THEN [ok |-> FALSE, threw |-> TRUE, actions |-> acts, synced |-> synced,
               calls |-> n]
       ELSE syncActionsFrom(agentId, actionsConfig, defaultObjectId, n + 1,
                            updateAction(acts, actionId, defaultObjectId, actionData),
                            Append(synced, actionData), fault)

syncActions(agentId, agentConfig, defaultObjectId, acts, fault) ==
  IF ~Has(agentConfig, "actions") \/ Len(agentConfig.actions) = 0
    THEN [ok |-> TRUE, threw |-> FALSE, actions |-> acts, synced |-> <<>>, calls |-> 0]
    ELSE syncActionsFrom(agentId, agentConfig.actions, defaultObjectId, 1, acts, <<>>, fault)

----------------------------------------------------------------------------
(* Agent reconciliation (sync.js) *)

Pick(o, keys) == [k \in {f \in keys : Has(o, f)} |-> o[k]]

WithDefined(o, k, v) == IF v = undefined THEN o ELSE Put(o, k, v)

\* the fields createDefaultAgent and updateDefaultAgent both write
agentData(agentConfig, instructions, avatar) ==
  LET copied == Pick(agentConfig, {"name", "description", "provider", "model",
                                   "model_parameters", "recursion_limit",
                                   "tool_resources"})
      d1 == WithDefined(WithDefined(copied, "instructions", instructions), "avatar", avatar)
      d2 == Put(d1, "category",
                IF Truthy(agentConfig, "category") THEN agentConfig.category ELSE "general")
  IN Put(d2, "tools", IF Has(agentConfig, "tools") THEN agentConfig.tools ELSE <<>>)

\* the variant that creates the record under another author
createDefaultAgent_OtherAuthor(ag, agentConfig, instructions, avatar, defaultObjectId) ==
  createAgent(ag,
    Assign(agentData(agentConfig, instructions, avatar),
           [id |-> agentConfig.id,
            author |-> OtherUser,
            actions |-> <<>>,
            version_metadata |->
              [configHash |-> calculateAgentConfigHash(agentConfig, instructions, avatar)]]))

createDefaultAgent(ag, agentConfig, instructions, avatar, defaultObjectId) ==
  createAgent(ag,
    Assign(agentData(agentConfig, instructions, avatar),
           [id |-> agentConfig.id,
            author |-> defaultObjectId,
            actions |-> <<>>,
            version_metadata |->
              [configHash |-> calculateAgentConfigHash(agentConfig, instructions, avatar)]]))

updateDefaultAgent(ag, existingAgent, agentConfig, instructions, avatar) ==
  updateAgent(ag, existingAgent.id,
    Assign(agentData(agentConfig, instructions, avatar),
           [version_metadata |->
              [configHash |-> calculateAgentConfigHash(agentConfig, instructions, avatar)]]))

\* the variant that takes every configuration for changed
configUnchanged_Never(existingAgent, newConfigHash) == FALSE

\* existingHash && hashesEqual(existingHash, newConfigHash)
configUnchanged(existingAgent, newConfigHash) ==
  /\ Has(existingAgent, "versions")
  /\ Len(existingAgent.versions) > 0
  /\ Has(Last(existingAgent.versions), "version_metadata")
  /\ Has(Last(existingAgent.versions).version_metadata, "configHash")
  /\ hashesEqual(Last(existingAgent.versions).version_metadata.configHash, newConfigHash)

\* threw: the call ended because the store call named by the fault threw
SyncOutcome(ok, ag, acts, step, threw, agentCalls, actionCalls, synced) ==
  [ok |-> ok, agents |-> ag, actions |-> acts, step |-> step, threw |-> threw,
   agentCalls |-> agentCalls, actionCalls |-> actionCalls, synced |-> synced]

\* the final step of syncAgent: write the action ids onto the agent record
\* the variant whose write of the action ids appends a version without a hash
linkActions_NewVersion(ag, agentId, synced) ==
  IF Len(synced) > 0
    THEN updateAgent(ag, agentId, [actions |-> [n \in 1..Len(synced) |-> synced[n].action_id],
                                   version_metadata |-> undefined])
    ELSE ag

linkActions(ag, agentId, synced) ==
  IF Len(synced) > 0
    THEN updateAgent(ag, agentId, [actions |-> [n \in 1..Len(synced) |-> synced[n].action_id]])
    ELSE ag

\* syncAgent(agentConfig, defaultObjectId) on the store (ag, acts); fault is
\* the store call that throws.  step names how far the call got:
\* "validate" | "load" | "getAgent" | "writeAgent" | "actions" | "link" | "done"
syncAgent(agentConfig, defaultObjectId, ag, acts, fault) ==
  IF ~validateAgentConfig(agentConfig)
    THEN SyncOutcome(FALSE, ag, acts, "validate", FALSE, 0, 0, <<>>)
  ELSE
  LET content == loadAgentFileContent(agentConfig) IN
  IF ~content.ok
    THEN SyncOutcome(FALSE, ag, acts, "load", FALSE, 0, 0, <<>>)
  ELSE IF fault.op = "getAgent"
    THEN SyncOutcome(FALSE, ag, acts, "getAgent", TRUE, 0, 0, <<>>)
  ELSE
  LET newConfigHash ==
        calculateAgentConfigHash(agentConfig, content.instructions, content.avatar)
      exists == agentExists(ag, agentConfig.id, defaultObjectId)
      skip == exists /\ configUnchanged(getAgent(ag, agentConfig.id, defaultObjectId),
                                        newConfigHash)
      w == IF skip THEN 0 ELSE 1
  IN
  IF ~skip /\ fault.op = "writeAgent"
    THEN SyncOutcome(FALSE, ag, acts, "writeAgent", TRUE, 1, 0, <<>>)
  ELSE
  LET ag1 == IF ~exists
               THEN createDefaultAgent(ag, agentConfig, content.instructions,
                                       content.avatar, defaultObjectId)
             ELSE IF skip THEN ag
             ELSE updateDefaultAgent(ag, getAgent(ag, agentConfig.id, defaultObjectId),
                                     agentConfig, content.instructions, content.avatar)
      sa == syncActions(agentConfig.id, agentConfig, defaultObjectId, acts, fault)
  IN
  IF ~sa.ok
    THEN SyncOutcome(FALSE, ag1, sa.actions, "actions", sa.threw, w, sa.calls, sa.synced)
  ELSE IF Len(sa.synced) > 0 /\ fault.op = "linkActions"
    THEN SyncOutcome(FALSE, ag1, sa.actions, "link", TRUE, w + 1, sa.calls, sa.synced)
  ELSE SyncOutcome(TRUE, linkActions(ag1, agentConfig.id, sa.synced), sa.actions, "done", FALSE,
                   w + (IF Len(sa.synced) > 0 THEN 1 ELSE 0), sa.calls, sa.synced)

----------------------------------------------------------------------------
(* Orphan cleanup (sync.js) *)

\* deleting one orphan; failAt = 0: nothing throws; failAt = j <= number of
\* actions: the j-th deleteAction throws; failAt = number of actions + 1:
\* deleteAgent throws
RECURSIVE deleteActionsUpTo(_, _, _, _)
deleteActionsUpTo(acts, ids, user, n) ==
  IF n = 0 THEN acts
  ELSE deleteAction(deleteActionsUpTo(acts, ids, user, n - 1), ids[n], user)

\* the variant that deletes the agent record before its actions
removeOrphan_AgentFirst(ag, acts, key, defaultObjectId, failAt) ==
  LET agent == ag[key]
      ids == IF Has(agent, "actions") THEN agent.actions ELSE <<>>
  IN IF failAt = 0
       THEN [agents |-> deleteAgent(ag, agent.id, defaultObjectId),
             actions |-> deleteActionsUpTo(acts, ids, defaultObjectId, Len(ids)),
             deleted |-> TRUE]
     ELSE IF failAt <= Len(ids)
       THEN [agents |-> deleteAgent(ag, agent.id, defaultObjectId),
             actions |-> deleteActionsUpTo(acts, ids, defaultObjectId, failAt - 1),
             deleted |-> TRUE]
     ELSE [agents |-> ag, actions |-> acts, deleted |-> FALSE]

removeOrphan(ag, acts, key, defaultObjectId, failAt) ==
  LET agent == ag[key]
      ids == IF Has(agent, "actions") THEN agent.actions ELSE <<>>
  IN IF failAt = 0
       THEN [agents |-> deleteAgent(ag, agent.id, defaultObjectId),
             actions |-> deleteActionsUpTo(acts, ids, defaultObjectId, Len(ids)),
             deleted |-> TRUE]
     ELSE IF failAt <= Len(ids)
       THEN [agents |-> ag,
             actions |-> deleteActionsUpTo(acts, ids, defaultObjectId, failAt - 1),
             deleted |-> FALSE]
     ELSE [agents |-> ag,
           actions |-> deleteActionsUpTo(acts, ids, defaultObjectId, Len(ids)),
           deleted |-> FALSE]

RECURSIVE removeOrphans(_, _, _, _, _, _)
removeOrphans(ag, acts, keys, defaultObjectId, failAt, deleted) ==
  IF keys = {} THEN [agents |-> ag, actions |-> acts, deleted |-> deleted]
  ELSE LET key == CHOOSE k \in keys : TRUE
           r == removeOrphan(ag, acts, key, defaultObjectId, failAt[key])
       IN removeOrphans(r.agents, r.actions, keys \ {key}, defaultObjectId, failAt,
                        IF r.deleted THEN deleted \cup {key[1]} ELSE deleted)

\* the agents cleanup takes for removed
removedAgents(ag, configuredAgentIds, defaultObjectId) ==
  {k \in findAgents(ag, defaultObjectId) : k[1] \notin configuredAgentIds}

\* the variant in which a deletion that throws ends the whole cleanup
cleanupRemovedAgents_AllOrNothing(configuredAgentIds, defaultObjectId, ag, acts, failAt) ==
  LET removed == removedAgents(ag, configuredAgentIds, defaultObjectId)
      r == IF \E k \in removed : failAt[k] # 0
             THEN [agents |-> ag, actions |-> acts, deleted |-> {}]
             ELSE removeOrphans(ag, acts, removed, defaultObjectId, failAt, {})
  IN [agents |-> r.agents, actions |-> r.actions, count |-> Cardinality(removed),
      orphans |-> {k[1] : k \in removed}, deleted |-> r.deleted]

\* cleanupRemovedAgents(configuredAgentIds, defaultObjectId); count is the
\* value returned, deleted the ids whose record was deleted
cleanupRemovedAgents(configuredAgentIds, defaultObjectId, ag, acts, failAt) ==
  LET removed == removedAgents(ag, configuredAgentIds, defaultObjectId)
      r == removeOrphans(ag, acts, removed, defaultObjectId, failAt, {})
  IN [agents |-> r.agents, actions |-> r.actions, count |-> Cardinality(removed),
      orphans |-> {k[1] : k \in removed}, deleted |-> r.deleted]

\* the ways the deletions of one cleanup can throw: per orphan, no call, one
\* of its deleteAction calls, or its deleteAgent call
deleteCalls(agent) == (IF Has(agent, "actions") THEN Len(agent.actions) ELSE 0) + 1

CleanupFaults(ag, keys) ==
  LET most == IF keys = {} THEN 0
              ELSE CHOOSE m \in {deleteCalls(ag[k]) : k \in keys} :
                     \A k \in keys : deleteCalls(ag[k]) <= m
  IN {f \in [keys -> 0..most] : \A k \in keys : f[k] <= deleteCalls(ag[k])}

----------------------------------------------------------------------------
(* The configurations a pass is run with *)

GoodSpec == [parses |-> TRUE, isObject |-> TRUE, openapi |-> Str("3.0.0"),
             info |-> Obj(<<>>), paths |-> Obj(<<>>)]

\* parses, but has no openapi / swagger version
BadSpec == [parses |-> TRUE, isObject |-> TRUE, info |-> Obj(<<>>),
            paths |-> Obj(<<>>)]

ActKey(domain) ==
  [domain |-> domain, spec |-> GoodSpec,
   auth |-> [type |-> "service_http", api_key |-> "k1"]]

ActOAuth(domain) ==
  [domain |-> domain, spec |-> GoodSpec,
   auth |-> [type |-> "oauth", client_url |-> "c", authorization_url |-> "u",
             oauth_client_id |-> "cid", oauth_client_secret |-> "sec"]]

ActBad(domain) == [domain |-> domain, spec |-> BadSpec]

Base(id) == [id |-> id, name |-> "N", provider |-> "openai", model |-> "gpt-4o"]

DeclsA ==
  {Put(Base("a"), "instructions", "A"),
   Put(Base("a"), "instructions", "B"),
   Assign(Base("a"), [instructions |-> "A", actions |-> <<ActKey("d1")>>]),
   Assign(Base("a"), [instructions |-> "A", actions |-> <<ActKey("d1"), ActOAuth("d2")>>]),
   Assign(Base("a"), [instructions |-> "A", actions |-> <<ActKey("d1"), ActBad("d2")>>])}

\* the second one has no name: validateAgentConfig rejects it
DeclsB ==
  {Put(Base("b"), "instructions", "A"),
   Drop(Put(Base("b"), "instructions", "A"), "name")}

DeclsC == {Put(Base("c"), "instructionsFile", <<"prompts", "a.md">>)}

\* a declaration whose instructionsFile does not exist
DeclMissingFile == Put(Base("c"), "instructionsFile", <<"prompts", "missing.md">>)

Opt(S) == {<<>>} \cup {<<d>> : d \in S}

\* a key left out, or given one of the values
OptField(key, values) == {<<>>} \cup {[k \in {key} |-> v] : v \in values}

\* the defaultAgents lists: at most one declaration per id, in the order a, b, c;
\* c comes after both a and b, and the one with the missing file alone or after a
Configs ==
  {a \o b : a \in Opt(DeclsA), b \in Opt(DeclsB)}
  \cup {<<a, b, c>> : a \in DeclsA, b \in DeclsB, c \in DeclsC}
  \cup {<<Put(Base("a"), "instructions", "A"), DeclMissingFile>>, <<DeclMissingFile>>}

\* the variant that keeps only the ids of the agents that synced in this pass
configuredAgentIds_SyncedOnly(defaultAgents) ==
  {log[n].id : n \in {m \in 1..Len(log) : log[m].ok}}

\* a.id of every declared agent: defaultAgents.map((a) => a.id)
configuredAgentIds(defaultAgents) ==
  {defaultAgents[n].id : n \in {m \in 1..Len(defaultAgents) : Has(defaultAgents[m], "id")}}

----------------------------------------------------------------------------
(* State machine *)

NoResults == [success |-> TRUE, syncedCount |-> 0, removedCount |-> 0, errors |-> <<>>]

NoLast == [ran |-> FALSE]

NoCleanup == [ran |-> FALSE]

NoCrash == [crashed |-> FALSE, rerun |-> FALSE]

NoProbe == [fn |-> "none"]

UserAgent ==
  [id |-> "u1", author |-> OtherUser, name |-> "mine", actions |-> <<"d1_u1">>,
   versions |-> <<>>]

UserAction ==
  [action_id |-> "d1_u1", user |-> OtherUser, agent_id |-> "u1",
   type |-> "action_prototype", metadata |-> [domain |-> "d1"]]

InitSystem ==
  /\ agents = [k \in {AgentKey("u1", OtherUser)} |-> UserAgent]
  /\ actions = [k \in {ActionKey("d1_u1", OtherUser)} |-> UserAction]
  /\ config = <<>>
  /\ pc = "idle"
  /\ idx = 1
  /\ results = NoResults
  /\ log = <<>>
  /\ last = NoLast
  /\ stored0 = <<>>
  /\ snap0 = [clean |-> FALSE, same |-> FALSE]
  /\ faults = 0
  /\ writes = [agent |-> 0, action |-> 0]
  /\ cleaned = NoCleanup
  /\ given = "undefined"
  /\ icons = 0
  /\ crash0 = NoCrash

Init ==
  /\ InitSystem
  /\ probe = NoProbe

\* the pass that just ended ran to its end and no call threw in it
CleanPass ==
  /\ pc = "done"
  /\ results.success
  /\ faults = 0
  /\ cleaned.ran

CanBegin ==
  /\ pc \in {"idle", "done"}
  /\ \A k \in DOMAIN agents : Len(agents[k].versions) < MaxVersions

BeginPass(defaultAgents) ==
  /\ config' = defaultAgents
  /\ results' = NoResults
  /\ log' = <<>>
  /\ last' = NoLast
  /\ stored0' = [id \in {k[1] : k \in findAgents(agents, getDefaultObjectId)} |->
                   Len(getAgent(agents, id, getDefaultObjectId).versions)]
  /\ snap0' = [clean |-> CleanPass, same |-> defaultAgents = config]
  /\ faults' = 0
  /\ writes' = [agent |-> 0, action |-> 0]
  /\ cleaned' = NoCleanup
  /\ UNCHANGED <<agents, actions>>

\* the values config?.endpoints?.agents?.defaultAgents can hold: undefined, a
\* value that is not an array, an array
RawLists ==
  {[kind |-> "undefined"], [kind |-> "object"]}
  \cup {[kind |-> "array", items |-> c] : c \in Configs}

\* !defaultAgents || !Array.isArray(defaultAgents) || defaultAgents.length === 0
noDefaultAgents(raw) ==
  IF raw.kind = "undefined" THEN TRUE
  ELSE IF raw.kind # "array" THEN TRUE
  ELSE Len(raw.items) = 0

\* the variant that still runs the cleanup when no agent is declared
SyncNoAgents_Cleanup ==
  /\ CanBegin
  /\ \E raw \in RawLists :
       /\ noDefaultAgents(raw)
       /\ config' = <<>>
       /\ given' = raw.kind
  /\ LET r == cleanupRemovedAgents({}, getDefaultObjectId, agents, actions,
                                   [k \in removedAgents(agents, {}, getDefaultObjectId) |-> 0])
     IN /\ agents' = r.agents
        /\ actions' = r.actions
        /\ results' = [NoResults EXCEPT !.removedCount = r.count]
        /\ cleaned' = [ran |-> TRUE, threw |-> FALSE, orphans |-> r.orphans,
                       deleted |-> r.deleted, failAt |-> <<>>]
  /\ log' = <<>>
  /\ last' = NoLast
  /\ stored0' = [id \in {k[1] : k \in findAgents(agents, getDefaultObjectId)} |->
                   Len(getAgent(agents, id, getDefaultObjectId).versions)]
  /\ snap0' = [clean |-> CleanPass, same |-> config = <<>>]
  /\ faults' = 0
  /\ writes' = [agent |-> 0, action |-> 0]
  /\ pc' = "done"
  /\ idx' = 1
  /\ UNCHANGED <<icons, crash0, probe>>

\* syncDefaultAgents with no declared agent: returns at once
SyncNoAgents ==
  /\ CanBegin
  /\ \E raw \in RawLists :
       /\ noDefaultAgents(raw)
       /\ BeginPass(<<>>)
       /\ given' = raw.kind
  /\ pc' = "done"
  /\ idx' = 1
  /\ UNCHANGED <<icons, crash0, probe>>

\* syncDefaultAgents up to the loop over the declared agents
SyncBegin ==
  /\ CanBegin
  /\ \E raw \in RawLists :
       /\ ~noDefaultAgents(raw)
       /\ BeginPass(raw.items)
       /\ given' = raw.kind
  /\ pc' = "sync"
  /\ idx' = 1
  /\ UNCHANGED <<icons, crash0, probe>>

\* the entry pushed onto results.errors for a failed agent
errorEntry(agentConfig, error) ==
  LET from == [agentId |-> "id", agentName |-> "name"]
  IN Put([k \in {f \in DOMAIN from : Has(agentConfig, from[f])} |-> agentConfig[from[k]]],
         "error", error)

\* error.message of the error a failed syncAgent call threw, by the step it
\* failed in
thrownMessage(agentConfig, step) ==
  IF step = "validate" THEN <<"Invalid agent configuration", ": ">>
  ELSE IF step = "load" THEN loadAgentFileContent(agentConfig).error
  ELSE IF step = "actions" THEN <<"Failed to sync action">>
  ELSE <<"store error">>

\* the variant that drops the failure instead of recording it
recordOutcome_Swallow(res, agentConfig, ok, error) ==
  IF ok THEN [res EXCEPT !.syncedCount = @ + 1] ELSE res

\* the variant that counts a failed agent as synced as well
recordOutcome_CountAll(res, agentConfig, ok, error) ==
  IF ok
    THEN [res EXCEPT !.syncedCount = @ + 1]
    ELSE [res EXCEPT !.success = FALSE,
                     !.syncedCount = @ + 1,
                     !.errors = Append(@, errorEntry(agentConfig, error))]

\* the try / catch around syncAgent in the loop of syncDefaultAgents
recordOutcome(res, agentConfig, ok, error) ==
  IF ok
    THEN [res EXCEPT !.syncedCount = @ + 1]
    ELSE [res EXCEPT !.success = FALSE,
                     !.errors = Append(@, errorEntry(agentConfig, error))]

\* the loop body once syncAgent has returned or thrown: r is its outcome, key
\* the key of the agent's record
AfterSyncAgent(agentConfig, r, key) ==
  /\ agents' = r.agents
  /\ actions' = r.actions
  /\ results' = recordOutcome(results, agentConfig, r.ok, thrownMessage(agentConfig, r.step))
  /\ icons' = IF r.step = "validate"
                THEN icons
                ELSE icons + loadAgentFileContent(agentConfig).iconCalls
  /\ log' = Append(log, [id |-> agentConfig.id, ok |-> r.ok])
  /\ last' = [ran |-> TRUE, agentConfig |-> agentConfig, ok |-> r.ok,
              step |-> r.step,
              existed |-> key \in DOMAIN agents,
              before |-> IF key \in DOMAIN agents THEN agents[key] ELSE undefined,
              synced |-> r.synced,
              agentCalls |-> r.agentCalls]
  /\ faults' = IF r.threw THEN faults + 1 ELSE faults
  /\ writes' = [agent |-> writes.agent + r.agentCalls,
                action |-> writes.action + r.actionCalls]

\* one iteration of the loop: syncAgent in its try / catch
SyncNext ==
  /\ pc = "sync"
  /\ idx <= Len(config)
  /\ config[idx] # null
  /\ \E fault \in SyncFaults(config[idx]) :
       /\ fault = NoFault \/ faults < MaxFaults
       /\ AfterSyncAgent(config[idx],
                         syncAgent(config[idx], getDefaultObjectId, agents, actions, fault),
                         AgentKey(config[idx].id, getDefaultObjectId))
  /\ idx' = idx + 1
  /\ UNCHANGED <<config, pc, stored0, snap0, cleaned, given, crash0, probe>>

\* after the loop: cleanupRemovedAgents, then the results are returned
SyncCleanup ==
  /\ pc = "sync"
  /\ idx > Len(config)
  /\ LET ids == configuredAgentIds(config)
         removed == removedAgents(agents, ids, getDefaultObjectId)
     IN \/ \E failAt \in CleanupFaults(agents, removed) :
             LET r == cleanupRemovedAgents(ids, getDefaultObjectId, agents, actions, failAt)
                 thrown == Cardinality({k \in removed : failAt[k] # 0})
             IN /\ faults + thrown <= MaxFaults
                /\ agents' = r.agents
                /\ actions' = r.actions
                /\ results' = [results EXCEPT !.removedCount = r.count]
                /\ cleaned' = [ran |-> TRUE, threw |-> FALSE, orphans |-> r.orphans,
                               deleted |-> r.deleted,
                               failAt |-> [id \in r.orphans |-> failAt[AgentKey(id, getDefaultObjectId)]]]
                /\ faults' = faults + thrown
        \* Agent.find throws: cleanupRemovedAgents rethrows into the outer catch
        \/ /\ faults < MaxFaults
           /\ results' = [results EXCEPT !.success = FALSE,
                                         !.errors = Append(@, [type |-> "sync_failure"])]
           /\ cleaned' = [ran |-> TRUE, threw |-> TRUE, orphans |-> {}, deleted |-> {},
                          failAt |-> <<>>]
           /\ faults' = faults + 1
           /\ UNCHANGED <<agents, actions>>
  /\ pc' = "done"
  /\ UNCHANGED <<config, idx, log, last, stored0, snap0, writes, given, icons, crash0, probe>>

Next == SyncNoAgents \/ SyncBegin \/ SyncNext \/ SyncCleanup

Spec == Init /\ [][Next]_vars

----------------------------------------------------------------------------
(* Passes over lists that hold an entry that is null *)

MalformedConfigs ==
  LET as == {Put(Base("a"), "instructions", "A"), Put(Base("a"), "instructions", "B"),
             Drop(Put(Base("a"), "instructions", "A"), "name"),
             Assign(Base("a"), [instructions |-> "A", actions |-> <<ActKey("d1")>>])}
      b == Put(Base("b"), "instructions", "A")
  IN {<<null>>, <<b>>}
     \cup {<<a>> : a \in as}
     \cup {<<a, b>> : a \in as}
     \cup {<<a, null>> : a \in as}
     \cup {<<null, a>> : a \in as}
     \cup {<<a, null, b>> : a \in as}

MalformedBegin ==
  /\ CanBegin
  /\ \E defaultAgents \in MalformedConfigs : BeginPass(defaultAgents)
  /\ given' = "array"
  /\ pc' = "sync"
  /\ idx' = 1
  /\ UNCHANGED <<icons, crash0, probe>>

\* the variant without the outer catch: the TypeError leaves syncDefaultAgents
SyncAbort_Propagate ==
  /\ pc = "sync"
  /\ idx <= Len(config)
  /\ config[idx] = null
  /\ pc' = "threw"
  /\ UNCHANGED <<agents, actions, config, idx, results, log, last, stored0, snap0, faults,
                 writes, cleaned, given, icons, crash0, probe>>

\* the loop reaches an entry that is null: reading agentConfig.id for the log
\* line throws outside the try around syncAgent, into the outer catch
SyncAbort ==
  /\ pc = "sync"
  /\ idx <= Len(config)
  /\ config[idx] = null
  /\ results' = [results EXCEPT !.success = FALSE,
                                !.errors = Append(@, [type |-> "sync_failure"])]
  /\ pc' = "done"
  /\ UNCHANGED <<agents, actions, config, idx, log, last, stored0, snap0, faults, writes,
                 cleaned, given, icons, crash0, probe>>

MalformedNext == MalformedBegin \/ SyncNext \/ SyncAbort \/ SyncCleanup

MalformedSpec == Init /\ [][MalformedNext]_vars

----------------------------------------------------------------------------
(* Passes over declarations whose instructions are blank, or at the limit *)

InstructionTexts == {"A", " ", Long(10000), Long(10001)}

InstructionFiles == {"a.md", "blank.md", "max.md", "over.md"}

\* agent a with inline instructions, with an instructionsFile, or with both
LimitDeclsA ==
  {Put(Base("a"), "instructions", t) : t \in InstructionTexts}
  \cup {Put(Base("a"), "instructionsFile", <<"prompts", f>>) : f \in InstructionFiles}
  \cup {Assign(Base("a"), [instructions |-> " ", instructionsFile |-> <<"prompts", "a.md">>]),
        Assign(Base("a"), [instructions |-> "A", instructionsFile |-> <<"prompts", "over.md">>])}

LimitDeclsB ==
  {Put(Base("b"), "instructions", "A"), Put(Base("b"), "instructions", Long(10001))}

LimitConfigs ==
  {<<a>> : a \in LimitDeclsA} \cup {<<a, b>> : a \in LimitDeclsA, b \in LimitDeclsB}

LimitBegin ==
  /\ CanBegin
  /\ \E defaultAgents \in LimitConfigs : BeginPass(defaultAgents)
  /\ given' = "array"
  /\ pc' = "sync"
  /\ idx' = 1
  /\ UNCHANGED <<icons, crash0, probe>>

LimitNext == LimitBegin \/ SyncNext \/ SyncCleanup

LimitSpec == Init /\ [][LimitNext]_vars

----------------------------------------------------------------------------
(* Passes over a store in which a user owns an agent with a declared id *)

UserAgentA ==
  [id |-> "a", author |-> OtherUser, name |-> "mine", actions |-> <<"d1_a">>,
   versions |-> <<>>]

UserActionA ==
  [action_id |-> "d1_a", user |-> OtherUser, agent_id |-> "a",
   type |-> "action_prototype", metadata |-> [domain |-> "d1"]]

SharedIdInit ==
  /\ agents = [k \in {AgentKey("a", OtherUser)} |-> UserAgentA]
  /\ actions = [k \in {ActionKey("d1_a", OtherUser)} |-> UserActionA]
  /\ config = <<>>
  /\ pc = "idle"
  /\ idx = 1
  /\ results = NoResults
  /\ log = <<>>
  /\ last = NoLast
  /\ stored0 = <<>>
  /\ snap0 = [clean |-> FALSE, same |-> FALSE]
  /\ faults = 0
  /\ writes = [agent |-> 0, action |-> 0]
  /\ cleaned = NoCleanup
  /\ given = "undefined"
  /\ icons = 0
  /\ crash0 = NoCrash
  /\ probe = NoProbe

\* agent a declared, agent b declared, or both
SharedIdConfigs ==
  {a \o b : a \in Opt(DeclsA), b \in Opt({Put(Base("b"), "instructions", "A")})} \ {<<>>}

\* a pass begins; the order in which the collection yields the records with
\* one id is not determined by the selector
SharedIdBegin ==
  /\ CanBegin
  /\ \E defaultAgents \in SharedIdConfigs : BeginPass(defaultAgents)
  /\ \E first \in {getDefaultObjectId, OtherUser} :
       probe' = [fn |-> "findOneAndUpdate", first |-> first]
  /\ given' = "array"
  /\ pc' = "sync"
  /\ idx' = 1
  /\ UNCHANGED <<icons, crash0>>

SharedIdNext == SharedIdBegin \/ SyncNext \/ SyncCleanup

SharedIdSpec == SharedIdInit /\ [][SharedIdNext]_vars

----------------------------------------------------------------------------
(* Passes over declarations that spell out the defaults or leave them out *)

\* agent a with category left out or "general", tools left out or [], and
\* instructions A or B
DefaultsDecls ==
  {Assign(Assign(Put(Base("a"), "instructions", t), c), tl) :
     t \in {"A", "B"},
     c \in OptField("category", {"general"}),
     tl \in OptField("tools", {<<>>})}

DefaultsConfigs == {<<a>> : a \in DefaultsDecls}

DefaultsBegin ==
  /\ CanBegin
  /\ \E defaultAgents \in DefaultsConfigs : BeginPass(defaultAgents)
  /\ given' = "array"
  /\ pc' = "sync"
  /\ idx' = 1
  /\ UNCHANGED <<icons, crash0, probe>>

DefaultsNext == DefaultsBegin \/ SyncNext \/ SyncCleanup

DefaultsSpec == Init /\ [][DefaultsNext]_vars

----------------------------------------------------------------------------
(* Passes over agents whose ids and action domains contain the separator *)

\* agent c with an action for domain a_b, agent b_c with an action for domain a
SeparatorDeclsC ==
  {Assign(Base("c"), [instructions |-> t, actions |-> <<ActKey("a_b")>>]) : t \in {"A", "B"}}

SeparatorDeclsBC ==
  {Assign(Base("b_c"), [instructions |-> t, actions |-> <<ActOAuth("a")>>]) : t \in {"A", "B"}}

SeparatorConfigs ==
  {<<c>> : c \in SeparatorDeclsC} \cup {<<bc>> : bc \in SeparatorDeclsBC}
  \cup {<<c, bc>> : c \in SeparatorDeclsC, bc \in SeparatorDeclsBC}
  \cup {<<bc, c>> : c \in SeparatorDeclsC, bc \in SeparatorDeclsBC}

SeparatorBegin ==
  /\ CanBegin
  /\ \E defaultAgents \in SeparatorConfigs : BeginPass(defaultAgents)
  /\ given' = "array"
  /\ pc' = "sync"
  /\ idx' = 1
  /\ UNCHANGED <<icons, crash0, probe>>

SeparatorNext == SeparatorBegin \/ SyncNext \/ SyncCleanup

SeparatorSpec == Init /\ [][SeparatorNext]_vars

----------------------------------------------------------------------------
(* The passes of an installation whose store begins empty *)

EmptyInit ==
  /\ agents = <<>>
  /\ actions = <<>>
  /\ config = <<>>
  /\ pc = "idle"
  /\ idx = 1
  /\ results = NoResults
  /\ log = <<>>
  /\ last = NoLast
  /\ stored0 = <<>>
  /\ snap0 = [clean |-> FALSE, same |-> FALSE]
  /\ faults = 0
  /\ writes = [agent |-> 0, action |-> 0]
  /\ cleaned = NoCleanup
  /\ given = "undefined"
  /\ icons = 0
  /\ crash0 = NoCrash
  /\ probe = NoProbe

EmptySpec == EmptyInit /\ [][Next]_vars

----------------------------------------------------------------------------
(* A pass that is interrupted, and the pass that is run again after it *)

DeclIcon ==
  Assign(Base("a"), [instructions |-> "A", iconFile |-> <<"icons", "a.png">>])

CrashDeclsA == (DeclsA \ {d \in DeclsA : ~syncActions("a", d, "", <<>>, NoFault).ok})
               \cup {DeclIcon}

\* the lists [a], [a, b] and [b], with b the valid declaration of b
CrashConfigs ==
  {<<a>> : a \in CrashDeclsA}
  \cup {<<a, Put(Base("b"), "instructions", "A")>> : a \in CrashDeclsA}
  \cup {<<Put(Base("b"), "instructions", "A")>>}

\* a pass begins; the store it begins with is kept
CrashBegin ==
  /\ CanBegin
  /\ icons < MaxIcons
  /\ \E defaultAgents \in CrashConfigs : BeginPass(defaultAgents)
  /\ crash0' = [crashed |-> FALSE, rerun |-> FALSE, agents |-> agents, actions |-> actions]
  /\ given' = "array"
  /\ pc' = "sync"
  /\ idx' = 1
  /\ UNCHANGED <<icons, probe>>

\* the ways a cleanup can have got part of its way: some of the orphans were
\* handled, at most one of them only up to one of its delete calls
PartialCleanups(ag, removed) ==
  UNION {{f \in CleanupFaults(ag, T) : Cardinality({k \in T : f[k] # 0}) <= 1} :
           T \in SUBSET removed}

\* the store is left as the interrupted call r had made it
StoppedIn(r) ==
  /\ Has(r, "threw") => r.threw
  /\ agents' = r.agents
  /\ actions' = r.actions

\* the process stops inside the pass, after some of the store calls of the
\* step it is in: inside syncAgent just before one of its store calls, or
\* inside cleanupRemovedAgents
Crash ==
  /\ pc = "sync"
  /\ ~crash0.crashed
  /\ ~crash0.rerun
  /\ \/ /\ idx <= Len(config)
        /\ \E fault \in SyncFaults(config[idx]) \ {NoFault} :
             StoppedIn(syncAgent(config[idx], getDefaultObjectId, agents, actions, fault))
        /\ icons' = icons + loadAgentFileContent(config[idx]).iconCalls
     \/ /\ idx > Len(config)
        /\ \E failAt \in PartialCleanups(agents,
                 removedAgents(agents, configuredAgentIds(config), getDefaultObjectId)) :
             StoppedIn(removeOrphans(agents, actions, DOMAIN failAt, getDefaultObjectId,
                                     failAt, {}))
        /\ icons' = icons
  /\ pc' = "crashed"
  /\ crash0' = [crash0 EXCEPT !.crashed = TRUE]
  /\ UNCHANGED <<config, idx, results, log, last, stored0, snap0, faults, writes,
                 cleaned, given, probe>>

\* the process is started again and runs the pass with the same configuration
Rerun ==
  /\ pc = "crashed"
  /\ BeginPass(config)
  /\ crash0' = [crash0 EXCEPT !.rerun = TRUE]
  /\ given' = "array"
  /\ pc' = "sync"
  /\ idx' = 1
  /\ UNCHANGED <<icons, probe>>

CrashNext == CrashBegin \/ SyncNext \/ SyncCleanup \/ Crash \/ Rerun

CrashSpec == Init /\ [][CrashNext]_vars

----------------------------------------------------------------------------
(* Repeated passes over an agent declared with an icon file *)

\* agent a with the icon file and instructions A or B, with an icon URL, or
\* with no icon
IconDecls ==
  {DeclIcon,
   Assign(Base("a"), [instructions |-> "B", iconFile |-> <<"icons", "a.png">>]),
   Assign(Base("a"), [instructions |-> "A", icon |-> "https://cdn/a.png"]),
   Put(Base("a"), "instructions", "A")}

IconConfigs == {<<a>> : a \in IconDecls}

IconBegin ==
  /\ CanBegin
  /\ icons <= MaxIcons
  /\ \E defaultAgents \in IconConfigs : BeginPass(defaultAgents)
  /\ given' = "array"
  /\ pc' = "sync"
  /\ idx' = 1
  /\ UNCHANGED <<icons, crash0, probe>>

IconNext == IconBegin \/ SyncNext \/ SyncCleanup

IconSpec == Init /\ [][IconNext]_vars

----------------------------------------------------------------------------
(* calculateAgentConfigHash applied to two declarations *)

sysvars == <<agents, actions, config, pc, idx, results, log, last, stored0, snap0,
             faults, writes, cleaned, given, icons, crash0>>

Reverse(q) == [n \in 1..Len(q) |-> q[Len(q) + 1 - n]]

HashBase ==
  <<<<"id", Str("a")>>, <<"name", Str("N")>>, <<"provider", Str("openai")>>,
    <<"model", Str("gpt-4o")>>, <<"instructions", Str("A")>>>>

Temperature == <<"temperature", Str("0.2")>>

MaxTokens == <<"max_tokens", Str("100")>>

HashModelParameters ==
  {<<<<"model_parameters", Obj(<<Temperature, MaxTokens>>)>>>>,
   <<<<"model_parameters", Obj(<<MaxTokens, Temperature>>)>>>>}

\* two levels deep
HashToolResources ==
  {<<<<"tool_resources", Obj(<<<<"search", Obj(<<<<"files", Str("f")>>, <<"id", Str("s")>>>>)>>>>)>>>>,
   <<<<"tool_resources", Obj(<<<<"search", Obj(<<<<"id", Str("s")>>, <<"files", Str("f")>>>>)>>>>)>>>>}

HashTools ==
  {<<>>,
   <<<<"tools", Arr(<<Str("t1"), Str("t2")>>)>>>>,
   <<<<"tools", Arr(<<Str("t2"), Str("t1")>>)>>>>}

HashActions ==
  {<<>>,
   <<<<"actions", Arr(<<Obj(<<<<"domain", Str("d1")>>>>)>>)>>>>,
   <<<<"actions", Arr(<<Obj(<<<<"domain", Str("d2")>>>>)>>)>>>>}

\* the declarations, each with its keys in one order and in the reverse order
HashDecls ==
  LET kvs == {HashBase \o p \o r \o t \o a :
                p \in HashModelParameters, r \in HashToolResources,
                t \in HashTools, a \in HashActions}
  IN {Obj(kv) : kv \in kvs} \cup {Obj(Reverse(kv)) : kv \in kvs}

HashInit ==
  /\ InitSystem
  /\ \E a \in HashDecls, b \in HashDecls :
       probe = [fn |-> "hash", a |-> a, b |-> b, done |-> FALSE]

\* both declarations are hashed, with no separately resolved instructions or
\* avatar
HashPair ==
  /\ probe.fn = "hash"
  /\ ~probe.done
  /\ probe' = [fn |-> "hash", a |-> probe.a, b |-> probe.b, done |-> TRUE,
               ha |-> calculateAgentConfigHashJson(probe.a, Undef, Undef),
               hb |-> calculateAgentConfigHashJson(probe.b, Undef, Undef)]
  /\ UNCHANGED sysvars

HashNext == HashPair

HashSpec == HashInit /\ [][HashNext]_vars

----------------------------------------------------------------------------
(* loadConfigFile applied to one path *)

PathSegments == {"..", "cfgx", "secret"}

RECURSIVE SegmentSeqs(_)
SegmentSeqs(n) ==
  IF n = 0 THEN {<<>>}
  ELSE {Append(q, g) : q \in SegmentSeqs(n - 1), g \in PathSegments}

\* the relative paths of one to MaxSegments segments, and the same as absolute
\* paths
PathInputs ==
  LET relative == UNION {SegmentSeqs(n) : n \in 1..MaxSegments}
  IN relative \cup {<<"/">> \o q : q \in relative}

PathInit ==
  /\ InitSystem
  /\ \E filePath \in PathInputs :
       probe = [fn |-> "load", filePath |-> filePath, done |-> FALSE]

LoadPath ==
  /\ probe.fn = "load"
  /\ ~probe.done
  /\ probe' = [fn |-> "load", filePath |-> probe.filePath, done |-> TRUE,
               result |-> loadConfigFile(probe.filePath)]
  /\ UNCHANGED sysvars

PathNext == LoadPath

PathSpec == PathInit /\ [][PathNext]_vars

----------------------------------------------------------------------------
(* validateAgentConfig and validateActionConfig applied to one declaration *)

ActionInputs ==
  {Assign(Assign(Assign(dom, sp), sf), au) :
     dom \in OptField("domain", {"", "d1"}),
     sp \in OptField("spec", {GoodSpec}),
     sf \in OptField("specFile", {<<>>, <<"specs", "a.yaml">>}),
     au \in OptField("auth", {[type |-> "none"], [type |-> "basic"], [type |-> ""],
                              [type |-> "oauth"],
                              [type |-> "oauth", client_url |-> "c",
                               authorization_url |-> "u"]})}

AgentInputs ==
  {Assign(Assign(Assign(Pick(Base("a"), present), ins), insf), acts) :
     present \in SUBSET requiredFields,
     ins \in OptField("instructions", {"", "A"}),
     insf \in OptField("instructionsFile", {<<>>, <<"prompts", "a.md">>}),
     acts \in OptField("actions", {<<ActKey("d1")>>, <<[domain |-> "d1"]>>})}

ValidateInit ==
  /\ InitSystem
  /\ \/ \E agentConfig \in AgentInputs :
          probe = [fn |-> "validateAgentConfig", arg |-> agentConfig, done |-> FALSE]
     \/ \E actionConfig \in ActionInputs :
          probe = [fn |-> "validateActionConfig", arg |-> actionConfig, done |-> FALSE]

ValidateAgent ==
  /\ probe.fn = "validateAgentConfig"
  /\ ~probe.done
  /\ probe' = [fn |-> probe.fn, arg |-> probe.arg, done |-> TRUE,
               valid |-> validateAgentConfig(probe.arg)]
  /\ UNCHANGED sysvars

ValidateAction ==
  /\ probe.fn = "validateActionConfig"
  /\ ~probe.done
  /\ probe' = [fn |-> probe.fn, arg |-> probe.arg, done |-> TRUE,
               valid |-> validateActionConfig(probe.arg)]
  /\ UNCHANGED sysvars

ValidateNext == ValidateAgent \/ ValidateAction

ValidateSpec == ValidateInit /\ [][ValidateNext]_vars

----------------------------------------------------------------------------
(* validateActionSpec applied to one spec text *)

\* the texts: one that neither YAML nor JSON accepts, one that parses to a
\* scalar, and the ones that parse to an object whose properties are left out,
\* empty strings, strings or objects
SpecTexts ==
  {[parses |-> FALSE, isObject |-> FALSE], [parses |-> TRUE, isObject |-> FALSE]} \cup
  {Assign(Assign(Assign(Assign(Assign([parses |-> TRUE, isObject |-> TRUE], o), sw), i), pa), co) :
     o \in OptField("openapi", {Str(""), Str("3.0.0")}),
     sw \in OptField("swagger", {Str("2.0")}),
     i \in OptField("info", {Str(""), Str("Title"), Obj(<<>>)}),
     pa \in OptField("paths", {Obj(<<>>)}),
     co \in OptField("components", {Obj(<<>>)})}

SpecTextInit ==
  /\ InitSystem
  /\ \E specContent \in SpecTexts :
       probe = [fn |-> "validateActionSpec", arg |-> specContent, done |-> FALSE]

ValidateText ==
  /\ probe.fn = "validateActionSpec"
  /\ ~probe.done
  /\ probe' = [fn |-> probe.fn, arg |-> probe.arg, done |-> TRUE,
               valid |-> validateActionSpec(probe.arg)]
  /\ UNCHANGED sysvars

SpecTextNext == ValidateText

SpecTextSpec == SpecTextInit /\ [][SpecTextNext]_vars

----------------------------------------------------------------------------
(* Requests on the agent routes (middleware/canAccessAgentResource.js,
   middleware/checkDefaultAgentAccess.js) *)

\* getAgent({id}): the record with that id, or undefined
getAgentById(ag, id) ==
  IF \E k \in DOMAIN ag : k[1] = id
    THEN ag[CHOOSE k \in DOMAIN ag : k[1] = id]
    ELSE undefined

\* what a middleware did: status is the HTTP status it answered with (0: it
\* did not answer), next tells whether it called next(), isDefaultAgent is
\* req.isDefaultAgent as it leaves it
Answered(status) == [status |-> status, next |-> FALSE, isDefaultAgent |-> FALSE]

Passed(isDefaultAgent) == [status |-> 0, next |-> TRUE, isDefaultAgent |-> isDefaultAgent]

\* the generic permission check, for the agents that are not system-owned:
\* the access-control lists decide
canAccessResource(granted) == IF granted THEN Passed(FALSE) ELSE Answered(403)

\* the variant that lets every request through
canAccessAgentResource_Open(requiredPermission, req, ag, threw, granted) == Passed(FALSE)

\* the middleware canAccessAgentResource({requiredPermission}) returns, applied
\* to req; threw: getAgent throws; granted: what the access-control lists say
canAccessAgentResource(requiredPermission, req, ag, threw, granted) ==
  IF ~Truthy(req.params, "id") THEN Answered(400)
  ELSE IF threw THEN Answered(500)
  ELSE IF getAgentById(ag, req.params.id) = undefined THEN Answered(404)
  ELSE IF getAgentById(ag, req.params.id).author = getDefaultObjectId
    THEN IF requiredPermission = 1 \/ requiredPermission = 16
           THEN (IF Has(req, "user") THEN Passed(TRUE) ELSE Answered(500))
           ELSE Answered(403)
  ELSE canAccessResource(granted)

\* req.isDefaultAgent after checkDefaultAgentAccess, which always calls next()
checkDefaultAgentAccess(req, ag, threw) ==
  IF ~Truthy(req.params, "id") THEN Passed(FALSE)
  ELSE IF threw THEN Passed(FALSE)
  ELSE IF getAgentById(ag, req.params.id) = undefined THEN Passed(FALSE)
  ELSE Passed(getAgentById(ag, req.params.id).author = getDefaultObjectId)

preventDefaultAgentModification(isDefaultAgent) ==
  IF isDefaultAgent THEN Answered(403) ELSE Passed(FALSE)

View == 1

Edit == 2

Delete == 4

Share == 8

Use == 16

\* the routes: guarded by canAccessAgentResource with a required permission,
\* or by checkDefaultAgentAccess followed by preventDefaultAgentModification
Routes ==
  {[guard |-> "canAccess", requiredPermission |-> p] : p \in {View, Edit, Delete, Share, Use}}
  \cup {[guard |-> "prevent", requiredPermission |-> Edit]}

\* the requests: the id names a system-owned agent, a user's agent, no agent,
\* or is missing; the user is authenticated or not
Requests ==
  {[params |-> ps, user |-> [id |-> u]] : ps \in {[id |-> "a"], [id |-> "u1"], [id |-> "zz"], <<>>},
                                         u \in {OtherUser, "user2"}}
  \cup {[params |-> ps] : ps \in {[id |-> "a"], [id |-> "u1"]}}

\* the store after a pass over one declaration of a, or before any pass
AccessInit ==
  /\ agents \in {[k \in {AgentKey("u1", OtherUser)} |-> UserAgent],
                  createDefaultAgent([k \in {AgentKey("u1", OtherUser)} |-> UserAgent],
                                     Put(Base("a"), "instructions", "A"), [text |-> "A"],
                                     undefined, getDefaultObjectId)}
  /\ actions = [k \in {ActionKey("d1_u1", OtherUser)} |-> UserAction]
  /\ config = <<>>
  /\ pc = "idle"
  /\ idx = 1
  /\ results = NoResults
  /\ log = <<>>
  /\ last = NoLast
  /\ stored0 = <<>>
  /\ snap0 = [clean |-> FALSE, same |-> FALSE]
  /\ faults = 0
  /\ writes = [agent |-> 0, action |-> 0]
  /\ cleaned = NoCleanup
  /\ given = "undefined"
  /\ icons = 0
  /\ crash0 = NoCrash
  /\ probe = NoProbe

\* a request arrives on a route
Receive ==
  /\ probe.fn = "none" \/ (probe.fn = "access" /\ probe.stage = "answered")
  /\ \E route \in Routes, req \in Requests :
       probe' = [fn |-> "access", stage |-> "received", route |-> route, req |-> req,
                 threw |-> FALSE, status |-> 0, isDefaultAgent |-> FALSE, handled |-> FALSE]
  /\ UNCHANGED sysvars

\* what a middleware did is kept on the request: an answer ends it
After(mw, threw, onward) ==
  probe' = [probe EXCEPT !.stage = IF mw.next THEN onward ELSE "answered",
                         !.status = mw.status,
                         !.isDefaultAgent = mw.isDefaultAgent,
                         !.threw = threw]

CanAccess ==
  /\ probe.fn = "access" /\ probe.stage = "received"
  /\ probe.route.guard = "canAccess"
  /\ \E threw \in BOOLEAN, granted \in BOOLEAN :
       After(canAccessAgentResource(probe.route.requiredPermission, probe.req, agents,
                                    threw, granted),
             threw, "handler")
  /\ UNCHANGED sysvars

CheckDefault ==
  /\ probe.fn = "access" /\ probe.stage = "received"
  /\ probe.route.guard = "prevent"
  /\ \E threw \in BOOLEAN :
       After(checkDefaultAgentAccess(probe.req, agents, threw), threw, "checked")
  /\ UNCHANGED sysvars

Prevent ==
  /\ probe.fn = "access" /\ probe.stage = "checked"
  /\ After(preventDefaultAgentModification(probe.isDefaultAgent), probe.threw, "handler")
  /\ UNCHANGED sysvars

\* the route handler runs and answers
Handle ==
  /\ probe.fn = "access" /\ probe.stage = "handler"
  /\ probe' = [probe EXCEPT !.stage = "answered", !.status = 200, !.handled = TRUE]
  /\ UNCHANGED sysvars

AccessNext == Receive \/ CanAccess \/ CheckDefault \/ Prevent \/ Handle

AccessSpec == AccessInit /\ [][AccessNext]_vars

----------------------------------------------------------------------------
(* Properties *)

Sys == getDefaultObjectId

Done == pc = "done" /\ config # <<>>

\* the entries of results.errors that are tagged with an agent
AgentErrors == SelectSeq(results.errors, LAMBDA e : Has(e, "agentId"))

RECURSIVE FailedIds(_)
FailedIds(l) ==
  IF l = <<>> THEN <<>>
  ELSE (IF Head(l).ok THEN <<>> ELSE <<Head(l).id>>) \o FailedIds(Tail(l))

\* the hash syncAgent computes for a declaration
HashOf(agentConfig) ==
  LET content == loadAgentFileContent(agentConfig)
  IN calculateAgentConfigHash(agentConfig, content.instructions, content.avatar)

LatestHash(agent) == Last(agent.versions).version_metadata.configHash

ActionIds(synced) == [n \in 1..Len(synced) |-> synced[n].action_id]

\* the system-owned action records that name the agent id as their agent
ActionsOf(id) == {k \in DOMAIN actions : k[2] = Sys /\ actions[k].agent_id = id}

\* the record the last syncAgent call was about, as stored now
LastKey == AgentKey(last.agentConfig.id, Sys)

\* C1: failure isolation.  When a pass over a non-empty list has returned, every
\* declared agent was attempted in order, each agent whose reconciliation threw
\* has exactly one entry in errors (in order) tagged with its id, success is
\* false if any threw, syncedCount counts the others, and each of the others
\* is stored with the hash of its declaration on its latest version.
C1_FailureIsolation ==
  Done =>
    /\ Len(log) = Len(config)
    /\ \A n \in 1..Len(config) : log[n].id = config[n].id
    /\ Len(AgentErrors) = Len(FailedIds(log))
    /\ \A n \in 1..Len(AgentErrors) : AgentErrors[n].agentId = FailedIds(log)[n]
    /\ (FailedIds(log) # <<>>) => ~results.success
    /\ results.syncedCount = Len(config) - Len(FailedIds(log))
    /\ \A n \in 1..Len(config) :
         log[n].ok =>
           /\ agentExists(agents, config[n].id, Sys)
           /\ LatestHash(getAgent(agents, config[n].id, Sys)) = HashOf(config[n])

\* C1 witness: [ok1, broken, ok2] has returned with the middle agent alone failed
C1_Witness ==
  /\ Done
  /\ Len(config) = 3
  /\ log[1].ok /\ ~log[2].ok /\ log[3].ok
  /\ results.syncedCount = 2
  /\ Len(results.errors) = 1
  /\ results.errors[1].agentId = "b"
  /\ agentExists(agents, "a", Sys) /\ agentExists(agents, "c", Sys)

\* C2: idempotence.  A pass that follows a clean pass of the same list, and in
\* which no store call throws, issues no createAgent / updateAgent /
\* updateAction call, counts every agent as synced and grows no version
\* history.
C2_Idempotent ==
  (Done /\ snap0.clean /\ snap0.same /\ faults = 0) =>
    /\ writes.agent = 0
    /\ writes.action = 0
    /\ results.syncedCount = Len(config)
    /\ \A id \in DOMAIN stored0 :
         agentExists(agents, id, Sys) =>
           Len(getAgent(agents, id, Sys).versions) = stored0[id]

\* C3: change detection.  When syncAgent succeeds on a declaration whose
\* instructions differ from the instructions of the stored record, the record
\* has exactly one more version, the earlier versions are kept, and the new
\* version carries the hash of the declaration, which differs from the
\* previous latest hash.
C3_ChangeDetection ==
  (/\ last.ran /\ last.ok /\ last.existed
   /\ last.before.instructions # loadAgentFileContent(last.agentConfig).instructions) =>
    LET now == agents[LastKey].versions
        was == last.before.versions
    IN /\ Len(now) = Len(was) + 1
       /\ SubSeq(now, 1, Len(was)) = was
       /\ Last(now).version_metadata.configHash # Last(was).version_metadata.configHash
       /\ Last(now).version_metadata.configHash = HashOf(last.agentConfig)

\* C3 witness: an agent stored with instructions "A" was synced with "B"
C3_Witness ==
  /\ last.ran /\ last.ok /\ last.existed
  /\ last.before.instructions = [text |-> "A"]
  /\ last.agentConfig.instructions = "B"
  /\ Len(agents[LastKey].versions) = 2

\* C4: orphan removal.  After a pass in which no store call threw and that
\* follows a clean pass, every system-owned agent that was stored when the
\* pass began and is not declared is gone together with every action record
\* that names it, every declared one that was stored is still there, and
\* removedCount is their number.
C4_OrphanRemoval ==
  (Done /\ faults = 0 /\ snap0.clean) =>
    LET orphans == DOMAIN stored0 \ configuredAgentIds(config)
    IN /\ \A id \in orphans : ~agentExists(agents, id, Sys) /\ ActionsOf(id) = {}
       /\ \A id \in DOMAIN stored0 \cap configuredAgentIds(config) :
            agentExists(agents, id, Sys)
       /\ results.removedCount = Cardinality(orphans)

\* C5: a declared agent whose reconciliation failed in this pass is not deleted
\* by this pass's cleanup: cleanup takes no declared id for an orphan, and a
\* record stored under a declared id when the pass began is there when it ends.
C5_FailedDeclaredSurvives ==
  (Done /\ cleaned.ran) =>
    /\ cleaned.orphans \cap {config[n].id : n \in 1..Len(config)} = {}
    /\ \A n \in 1..Len(config) :
         (~log[n].ok /\ config[n].id \in DOMAIN stored0) =>
           agentExists(agents, config[n].id, Sys)

\* C5 witness: the stored agent a failed, and the cleanup of the same pass
\* deleted another agent
C5_Witness ==
  /\ Done
  /\ cleaned.ran /\ ~cleaned.threw
  /\ cleaned.deleted # {}
  /\ \E n \in 1..Len(config) :
       /\ ~log[n].ok
       /\ config[n].id \in DOMAIN stored0
       /\ agentExists(agents, config[n].id, Sys)

\* C6: credential encryption.  In every action record the last syncAgent call
\* wrote, api_key (auth.type service_http) and oauth_client_id /
\* oauth_client_secret (auth.type oauth) hold the output of the encryption
\* collaborator, not the declared plaintext.
C6_CredentialsEncrypted ==
  last.ran =>
    \A n \in 1..Len(last.synced) :
      LET decl == last.agentConfig.actions[n]
          stored == last.synced[n].metadata
          Encrypted(field) ==
            Truthy(decl.auth, field) =>
              /\ stored[field] = encryptSensitiveValue(decl.auth[field])
              /\ stored[field] # decl.auth[field]
      IN Has(decl, "auth") =>
           /\ decl.auth.type = "service_http" => Encrypted("api_key")
           /\ decl.auth.type = "oauth" =>
                Encrypted("oauth_client_id") /\ Encrypted("oauth_client_secret")

\* C7: when syncAgent fails in the reconciliation of an action, the agent's own
\* record is as it was before the call: absent if it was absent, the same
\* record otherwise.
C7_ActionFailureLeavesAgent ==
  (last.ran /\ ~last.ok /\ last.step = "actions") =>
    IF last.existed
      THEN LastKey \in DOMAIN agents /\ agents[LastKey] = last.before
      ELSE LastKey \notin DOMAIN agents

\* C8: after a successful syncAgent the agent record's action-id list is the
\* list of the ids of the actions reconciled for the declaration.
C8_ActionListExact ==
  (last.ran /\ last.ok) => agents[LastKey].actions = ActionIds(last.synced)

\* C9: success is false exactly when some declared agent's reconciliation
\* threw; no failure of the cleanup phase makes it false.
C9_SuccessIffAgentError ==
  Done => (~results.success <=> FailedIds(log) # <<>>)

\* C10: removedCount is the number of orphans whose deletion succeeded.
C10_RemovedCountsDeleted ==
  (Done /\ cleaned.ran /\ ~cleaned.threw) =>
    results.removedCount = Cardinality(cleaned.deleted)

\* C12: a pass whose declared list is absent, not a list or empty returns the
\* all-zero successful result at once: the step that takes the engine from
\* rest to the end of a pass leaves both collections as they were, issues no
\* store write, no getAgent and no cleanup.
C12_NoAgentsNoOp ==
  [][(pc # "sync" /\ pc' = "done") =>
       /\ results' = [success |-> TRUE, syncedCount |-> 0, removedCount |-> 0,
                      errors |-> <<>>]
       /\ agents' = agents
       /\ actions' = actions
       /\ writes' = [agent |-> 0, action |-> 0]
       /\ ~last'.ran
       /\ ~cleaned'.ran
       /\ (given' = "array" => config' = <<>>)]_vars

\* C12 witness: a pass given a value that is not a list has returned the
\* all-zero result while a system-owned agent is stored
C12_Witness ==
  /\ pc = "done"
  /\ given = "object"
  /\ config = <<>>
  /\ results.success /\ results.syncedCount = 0 /\ results.removedCount = 0
  /\ results.errors = <<>>
  /\ agentExists(agents, "a", Sys)

\* C13: after a completed pass in which no store call threw, every stored
\* system-owned agent is declared in that pass's list, also when the list is
\* empty.
C13_NoUndeclaredAgent ==
  (pc = "done" /\ faults = 0) =>
    \A k \in findAgents(agents, Sys) : k[1] \in configuredAgentIds(config)

\* the ids of the actions a declaration declares
DeclaredActionIds(agentConfig) ==
  IF Has(agentConfig, "actions")
    THEN {generateActionId(agentConfig.actions[m].domain, agentConfig.id) :
            m \in 1..Len(agentConfig.actions)}
    ELSE {}

\* C14: after a completed pass in which every declared agent synced and no
\* store call threw, every system-owned action record of a declared agent is
\* the record of an action that agent declares now.
C14_ActionLifecycle ==
  (Done /\ faults = 0 /\ results.success) =>
    \A n \in 1..Len(config) :
      \A k \in ActionsOf(config[n].id) : k[1] \in DeclaredActionIds(config[n])

\* a declaration that lacks a required field or an instructions source
MissingRequired(agentConfig) ==
  \/ \E f \in {"id", "name", "provider", "model"} : ~Truthy(agentConfig, f)
  \/ ~Truthy(agentConfig, "instructions") /\ ~TruthyPath(agentConfig, "instructionsFile")

\* C15: the syncAgent call for an invalid declaration fails in validation and
\* does nothing else: both collections, the write counts and the number of
\* processed icons are as before, and no store call was reached.
C15_InvalidNoIO ==
  [][(pc = "sync" /\ idx <= Len(config) /\ idx' = idx + 1
      /\ MissingRequired(config[idx])) =>
       /\ ~last'.ok
       /\ last'.step = "validate"
       /\ agents' = agents
       /\ actions' = actions
       /\ writes' = writes
       /\ icons' = icons
       /\ faults' = faults]_vars

\* C15 witness: a declaration without a name was rejected while agent a is
\* stored
C15_Witness ==
  /\ last.ran /\ ~last.ok
  /\ last.step = "validate"
  /\ ~Has(last.agentConfig, "name")
  /\ agentExists(agents, "a", Sys)

\* C18: when syncAgent succeeds on a stored agent whose content hash is
\* unchanged and whose declared actions are not the ones on the record, no
\* version is added, every declared action's record is the one just written,
\* and the record's action-id list is the list of the declared actions' ids.
C18_ActionOnlyChange ==
  (/\ last.ran /\ last.ok /\ last.existed
   /\ LatestHash(last.before) = HashOf(last.agentConfig)
   /\ {last.before.actions[n] : n \in 1..Len(last.before.actions)}
        # DeclaredActionIds(last.agentConfig)) =>
    /\ agents[LastKey].versions = last.before.versions
    /\ \A n \in 1..Len(last.synced) :
         actions[ActionKey(last.synced[n].action_id, Sys)] = last.synced[n]
    /\ agents[LastKey].actions = ActionIds(last.synced)

\* the part of C18 about the version history alone
C18_NoVersionAdded ==
  (/\ last.ran /\ last.ok /\ last.existed
   /\ LatestHash(last.before) = HashOf(last.agentConfig)) =>
    agents[LastKey].versions = last.before.versions

\* the n-th declared agent names an instructionsFile that does not exist
MissingInstructionsFile(n) ==
  /\ ~MissingRequired(config[n])
  /\ TruthyPath(config[n], "instructionsFile")
  /\ resolve(ConfigDir, config[n].instructionsFile) \notin DOMAIN Files

\* C20: an agent declared with an instructionsFile that does not exist has
\* exactly one entry in errors, with its id and a message that contains "not
\* found" and the resolved path; it is not counted as synced, and its record
\* is as it was when the pass began (absent, or with the same versions).
C20_MissingFileReported ==
  Done =>
    \A n \in 1..Len(config) :
      MissingInstructionsFile(n) =>
        LET id == config[n].id
            mine == {m \in 1..Len(results.errors) :
                       Has(results.errors[m], "agentId") /\ results.errors[m].agentId = id}
        IN /\ ~log[n].ok
           /\ Cardinality(mine) = 1
           /\ \A m \in mine :
                /\ Contains(results.errors[m].error, "not found")
                /\ Contains(results.errors[m].error,
                            pathString(resolve(ConfigDir, config[n].instructionsFile)))
           /\ results.syncedCount = Len(config) - Len(FailedIds(log))
           /\ IF id \in DOMAIN stored0
                THEN /\ agentExists(agents, id, Sys)
                     /\ Len(getAgent(agents, id, Sys).versions) = stored0[id]
                ELSE ~agentExists(agents, id, Sys)
           /\ (id \notin DOMAIN stored0) => ActionsOf(id) = {}

\* C20 witness: the list [a, c] with c's instructionsFile missing has returned
C20_Witness ==
  /\ Done
  /\ Len(config) = 2
  /\ MissingInstructionsFile(2)
  /\ results.syncedCount = 1
  /\ Len(results.errors) = 1
  /\ results.errors[1].agentId = "c"
  /\ Contains(results.errors[1].error, "/srv/cfg/prompts/missing.md")

\* two JSON values are equal up to the order of the keys of their objects, at
\* every depth
RECURSIVE SameUpToKeyOrder(_, _)
SameUpToKeyOrder(x, y) ==
  IF x.t # y.t THEN FALSE
  ELSE IF x.t = "arr"
    THEN /\ Len(x.items) = Len(y.items)
         /\ \A n \in 1..Len(x.items) : SameUpToKeyOrder(x.items[n], y.items[n])
  ELSE IF x.t = "obj"
    THEN /\ Len(x.kv) = Len(y.kv)
         /\ \A n \in 1..Len(x.kv) :
              \E m \in 1..Len(y.kv) :
                /\ x.kv[n][1] = y.kv[m][1]
                /\ SameUpToKeyOrder(x.kv[n][2], y.kv[m][2])
  ELSE x = y

Hashed == probe.fn = "hash" /\ probe.done

\* the fields the content hash is specified over
HashedFields ==
  {"id", "name", "description", "instructions", "provider", "model", "category",
   "model_parameters", "recursion_limit", "tools", "tool_resources", "icon"}

AgreeOnHashedFields(x, y) ==
  \A k \in HashedFields : SameUpToKeyOrder(Get(x, k), Get(y, k))

\* C16: hash determinism.  Two declarations that are equal up to the order of
\* their keys at every depth have the same hash; two declarations that agree
\* on everything but the order of the elements of the tools array have
\* different hashes.
C16_HashDeterminism ==
  Hashed =>
    /\ SameUpToKeyOrder(probe.a, probe.b) => probe.ha = probe.hb
    /\ (/\ \A k \in (HashedFields \cup {"actions"}) \ {"tools"} :
             SameUpToKeyOrder(Get(probe.a, k), Get(probe.b, k))
        /\ Get(probe.a, "tools").t = "arr"
        /\ Get(probe.b, "tools").t = "arr"
        /\ Get(probe.a, "tools") # Get(probe.b, "tools")) => probe.ha # probe.hb

\* C16 witness: two declarations whose keys are in different orders at the top
\* and two levels down were given the same hash
C16_Witness ==
  /\ Hashed
  /\ probe.a.kv[1] # probe.b.kv[1]
  /\ Get(probe.a, "tool_resources").t = "obj"
  /\ Get(probe.a, "tool_resources") # Get(probe.b, "tool_resources")
  /\ SameUpToKeyOrder(probe.a, probe.b)
  /\ probe.ha = probe.hb

\* C17: the content hash does not depend on the actions.  Two declarations
\* that agree on every hashed field have the same hash, whatever their actions
\* are.
C17_HashIgnoresActions ==
  (Hashed /\ AgreeOnHashedFields(probe.a, probe.b)) => probe.ha = probe.hb

\* C17 witness: two declarations with different actions were given the same
\* hash
C17_Witness ==
  /\ Hashed
  /\ AgreeOnHashedFields(probe.a, probe.b)
  /\ Get(probe.a, "actions").t = "arr"
  /\ Get(probe.b, "actions").t = "arr"
  /\ Get(probe.a, "actions") # Get(probe.b, "actions")
  /\ probe.ha = probe.hb

\* the absolute path p is the directory base or lies below it
Descendant(p, base) ==
  /\ Len(p) >= Len(base)
  /\ SubSeq(p, 1, Len(base)) = base

\* C19: path traversal protection.  Loading a relative path that resolves
\* outside the configuration directory fails with the path-traversal error and
\* reads no file; an absolute path never gets that error.
C19_PathTraversal ==
  (probe.fn = "load" /\ probe.done) =>
    IF isAbsolute(probe.filePath)
      THEN ~Contains(probe.result.error, "Path traversal detected")
      ELSE ~Descendant(resolve(ConfigDir, probe.filePath), ConfigDir) =>
             /\ ~probe.result.ok
             /\ ~probe.result.read
             /\ Contains(probe.result.error, "Path traversal detected")

\* the store a pass over cfg leaves when it starts from (ag, acts), runs to
\* its end and no call throws
RECURSIVE RunAgents(_, _, _, _)
RunAgents(cfg, n, ag, acts) ==
  IF n > Len(cfg) THEN [agents |-> ag, actions |-> acts]
  ELSE LET r == syncAgent(cfg[n], Sys, ag, acts, NoFault)
       IN RunAgents(cfg, n + 1, r.agents, r.actions)

RunPass(cfg, ag, acts) ==
  LET looped == RunAgents(cfg, 1, ag, acts)
      ids == configuredAgentIds(cfg)
      c == cleanupRemovedAgents(ids, Sys, looped.agents, looped.actions,
                                [k \in removedAgents(looped.agents, ids, Sys) |-> 0])
  IN [agents |-> c.agents, actions |-> c.actions]

\* a store with the generated part of every avatar path left out: an agent
\* record shows whether it has an avatar, and each of its versions the hashed
\* fields other than the avatar path
StoreView(ag, acts) ==
  [agents |->
     [k \in DOMAIN ag |->
        [fields |-> Drop(Drop(ag[k], "avatar"), "versions"),
         avatar |-> Has(ag[k], "avatar"),
         versions |-> [n \in 1..Len(ag[k].versions) |->
                         Drop(ag[k].versions[n].version_metadata.configHash.of,
                              "avatar_filepath")]]],
   actions |-> acts]

Recovered == pc = "done" /\ crash0.crashed /\ crash0.rerun /\ faults = 0

\* C11: crash convergence.  When a pass was interrupted after some of its
\* store calls and the pass run again with the same list has ended with no
\* call throwing, the store is the one an uninterrupted pass from the store
\* the interrupted pass began with leaves.
C11_CrashConvergence ==
  Recovered =>
    StoreView(agents, actions) =
      LET whole == RunPass(config, crash0.agents, crash0.actions)
      IN StoreView(whole.agents, whole.actions)

\* the part of C11 for the lists that declare no icon file
C11_ConvergenceWithoutIconFile ==
  (Recovered /\ \A n \in 1..Len(config) : ~Has(config[n], "iconFile")) =>
    [agents |-> agents, actions |-> actions] =
      RunPass(config, crash0.agents, crash0.actions)

\* C21: first sync.  When syncAgent succeeds for an id that had no system-owned
\* record, the store holds exactly one record with that id, authored by the
\* system owner, with one version that carries the hash of the declaration;
\* and a pass over one loadable declaration without actions that began with an
\* empty store and in which no call threw returns syncedCount 1 and
\* removedCount 0.
C21_FirstSync ==
  /\ (last.ran /\ last.ok /\ ~last.existed) =>
        /\ Cardinality({k \in DOMAIN agents : k[1] = last.agentConfig.id}) = 1
        /\ agentExists(agents, last.agentConfig.id, Sys)
        /\ agents[LastKey].author = Sys
        /\ Len(agents[LastKey].versions) = 1
        /\ agents[LastKey].versions[1].version_metadata.configHash = HashOf(last.agentConfig)
  /\ (/\ Done /\ faults = 0
      /\ DOMAIN stored0 = {}
      /\ findAgents(agents, OtherUser) = {}
      /\ Len(config) = 1
      /\ ~Has(config[1], "actions")
      /\ validateAgentConfig(config[1])
      /\ loadAgentFileContent(config[1]).ok) =>
        /\ results.syncedCount = 1
        /\ results.removedCount = 0
        /\ DOMAIN agents = {AgentKey(config[1].id, Sys)}
        /\ Len(agents[AgentKey(config[1].id, Sys)].versions) = 1

\* C21 witness: the pass over [a] that began with an empty store has returned
C21_Witness ==
  /\ Done /\ faults = 0
  /\ DOMAIN stored0 = {}
  /\ Len(config) = 1
  /\ last.ran /\ last.ok /\ ~last.existed
  /\ DOMAIN agents = {AgentKey("a", Sys)}
  /\ agents[AgentKey("a", Sys)].author = Sys
  /\ Len(agents[AgentKey("a", Sys)].versions) = 1
  /\ results.syncedCount = 1
  /\ results.removedCount = 0

\* the request in hand names a system-owned agent, comes from an authenticated
\* user, and its guard has looked the agent up
OnSystemAgent ==
  /\ probe.fn = "access"
  /\ probe.stage \in {"handler", "answered"}
  /\ ~probe.threw
  /\ Has(probe.req, "user")
  /\ Truthy(probe.req.params, "id")
  /\ getAgentById(agents, probe.req.params.id) # undefined
  /\ getAgentById(agents, probe.req.params.id).author = Sys

\* C22: on a system-owned agent, the access middleware lets a request that
\* requires VIEW or USE through to the route handler, for every authenticated
\* user, and answers a request that requires EDIT or DELETE with 403 and the
\* route handler is never run.
C22_ReadOnlyAccess ==
  (OnSystemAgent /\ probe.route.guard = "canAccess") =>
    /\ probe.route.requiredPermission \in {View, Use} =>
         /\ probe.status \in {0, 200}
         /\ probe.isDefaultAgent
         /\ probe.stage = "answered" => probe.handled
    /\ probe.route.requiredPermission \in {Edit, Delete} =>
         /\ probe.stage = "answered"
         /\ probe.status = 403
         /\ ~probe.handled

\* C22 witness: a DELETE on the system-owned agent a was answered with 403
C22_Witness ==
  /\ OnSystemAgent
  /\ probe.route = [guard |-> "canAccess", requiredPermission |-> Delete]
  /\ probe.req.params.id = "a"
  /\ probe.status = 403
  /\ ~probe.handled

\* the same for VIEW: the handler has run for another user than the owner
C22_WitnessView ==
  /\ OnSystemAgent
  /\ probe.route = [guard |-> "canAccess", requiredPermission |-> View]
  /\ probe.req.user.id = "user2"
  /\ probe.handled

ValidatedAgent == probe.fn = "validateAgentConfig" /\ probe.done

ValidatedAction == probe.fn = "validateActionConfig" /\ probe.done

\* C23: validateAgentConfig accepts a declaration only if exactly one of
\* instructions and instructionsFile is present.
C23_ExactlyOneInstructions ==
  (ValidatedAgent /\ probe.valid) =>
    (Truthy(probe.arg, "instructions") <=> ~TruthyPath(probe.arg, "instructionsFile"))

\* the part of C23 for the declarations that have neither
C23_AtLeastOneInstructions ==
  (ValidatedAgent /\ probe.valid) =>
    (Truthy(probe.arg, "instructions") \/ TruthyPath(probe.arg, "instructionsFile"))

\* C24: validateActionConfig accepts an action declaration only if domain is
\* present and exactly one of spec and specFile is present.
C24_ExactlyOneSpec ==
  (ValidatedAction /\ probe.valid) =>
    /\ Truthy(probe.arg, "domain")
    /\ (Has(probe.arg, "spec") <=> ~TruthyPath(probe.arg, "specFile"))

\* the part of C24 for the domain and for the actions that have neither
C24_DomainAndAtLeastOneSpec ==
  (ValidatedAction /\ probe.valid) =>
    /\ Truthy(probe.arg, "domain")
    /\ (Has(probe.arg, "spec") \/ TruthyPath(probe.arg, "specFile"))

\* the system-owned action records
SystemActions == {k \in DOMAIN actions : k[2] = Sys}

\* C25: the store never holds two system-owned action records for one
\* (domain, agent id) pair, and each record is stored under the id computed
\* from its pair, however often the action was reconciled.
C25_OneActionPerPair ==
  /\ \A k1 \in SystemActions, k2 \in SystemActions :
       (/\ actions[k1].metadata.domain = actions[k2].metadata.domain
        /\ actions[k1].agent_id = actions[k2].agent_id) => k1 = k2
  /\ \A k \in SystemActions :
       k[1] = generateActionId(actions[k].metadata.domain, actions[k].agent_id)

\* C25 witness: the action d1 of agent a, stored by an earlier pass, was
\* reconciled again and the store holds one record for it
C25_Witness ==
  /\ last.ran /\ last.ok /\ last.existed
  /\ last.before.actions = <<"d1_a">>
  /\ Len(last.synced) = 1
  /\ last.synced[1].action_id = "d1_a"
  /\ writes.action = 1
  /\ Cardinality({k \in SystemActions : actions[k].agent_id = "a"}) = 1

\* the fields createDefaultAgent and updateDefaultAgent write
ContentFields ==
  {"name", "description", "instructions", "avatar", "provider", "model", "category",
   "model_parameters", "recursion_limit", "tools", "tool_resources"}

\* C26: skip when unchanged.  When the last syncAgent call found a stored
\* record whose latest hash is the hash of the declaration, the record's
\* content fields and its versions are as they were, whatever happened to the
\* actions afterwards, and the only write to the record the call can have
\* issued is the one of the action-id list.
C26_SkipWhenUnchanged ==
  (/\ last.ran /\ last.existed
   /\ last.step \in {"actions", "link", "done"}
   /\ LatestHash(last.before) = HashOf(last.agentConfig)) =>
    /\ Pick(agents[LastKey], ContentFields) = Pick(last.before, ContentFields)
    /\ agents[LastKey].versions = last.before.versions
    /\ agents[LastKey].author = last.before.author
    /\ last.agentCalls = (IF last.step = "actions" \/ Len(last.synced) = 0 THEN 0 ELSE 1)

\* C26 witness: agent a, stored with one version, was synced again with the
\* declaration it was created from
C26_Witness ==
  /\ last.ran /\ last.ok /\ last.existed
  /\ last.agentConfig.id = "a"
  /\ LatestHash(last.before) = HashOf(last.agentConfig)
  /\ last.agentCalls = 0
  /\ Len(agents[LastKey].versions) = 1
  /\ agents[LastKey] = last.before

\* the orphans of the last cleanup one of whose delete calls threw
FailedOrphans == {id \in DOMAIN cleaned.failAt : cleaned.failAt[id] # 0}

\* C27: cleanup isolation.  When a delete call for one orphan threw, the
\* cleanup still returned, and every other orphan was deleted together with
\* the actions that name it on their record.
C27_CleanupIsolation ==
  (pc = "done" /\ cleaned.ran /\ FailedOrphans # {}) =>
    /\ ~cleaned.threw
    /\ results.removedCount = Cardinality(cleaned.orphans)
    /\ \A id \in cleaned.orphans \ FailedOrphans :
         /\ id \in cleaned.deleted
         /\ ~agentExists(agents, id, Sys)

\* C27 witness: of two orphans, the deletion of one threw and the other one
\* was deleted
C27_Witness ==
  /\ pc = "done" /\ cleaned.ran /\ ~cleaned.threw
  /\ Cardinality(cleaned.orphans) = 2
  /\ Cardinality(FailedOrphans) = 1
  /\ Cardinality(cleaned.deleted) = 1
  /\ \A id \in FailedOrphans : agentExists(agents, id, Sys)
  /\ \A id \in cleaned.deleted : ~agentExists(agents, id, Sys)

\* the system-owned agents that were stored when the pass began and are not
\* declared in it
OrphansAtBegin ==
  {k \in findAgents(crash0.agents, Sys) : k[1] \notin configuredAgentIds(config)}

\* C28: cleanup ordering.  At every point of a pass, also one at which it was
\* interrupted, an orphan whose record is gone has none of the actions listed
\* on its record left; and when the cleanup has returned, an orphan for which
\* a deleteAction call threw is still stored, with the system owner.
C28_CleanupOrdering ==
  /\ (Has(crash0, "agents") /\ pc \in {"sync", "crashed", "done"}) =>
       \A k \in OrphansAtBegin :
         k \notin DOMAIN agents =>
           \A n \in 1..Len(crash0.agents[k].actions) :
             ActionKey(crash0.agents[k].actions[n], Sys) \notin DOMAIN actions
  /\ (pc = "done" /\ cleaned.ran) =>
       \A id \in FailedOrphans :
         /\ agentExists(agents, id, Sys)
         /\ id \notin cleaned.deleted
         /\ id \notin configuredAgentIds(config)

\* C28 witness: the second deleteAction call for an orphan with two actions
\* threw; its first action is gone, its second action and its record are still
\* stored
C28_Witness ==
  /\ pc = "done" /\ cleaned.ran
  /\ "a" \in FailedOrphans
  /\ cleaned.failAt["a"] = 2
  /\ agentExists(agents, "a", Sys)
  /\ Len(getAgent(agents, "a", Sys).actions) = 2
  /\ ActionKey(getAgent(agents, "a", Sys).actions[1], Sys) \notin DOMAIN actions
  /\ ActionKey(getAgent(agents, "a", Sys).actions[2], Sys) \in DOMAIN actions

\* the same at an interruption: the process stopped inside the cleanup after
\* the actions of an orphan were deleted and before its record was
C28_WitnessInterrupted ==
  /\ pc = "crashed"
  /\ idx > Len(config)
  /\ \E k \in OrphansAtBegin :
       /\ k \in DOMAIN agents
       /\ Len(agents[k].actions) > 0
       /\ \A n \in 1..Len(agents[k].actions) :
            ActionKey(agents[k].actions[n], Sys) \notin DOMAIN actions

\* the agents attempted so far are the first entries of the declared list, in
\* its order; the cleanup has run only if all were attempted, and a pass that
\* has returned has run it, once
PassInOrder ==
  /\ Len(log) <= Len(config)
  /\ \A n \in 1..Len(log) : log[n].id = config[n].id
  /\ cleaned.ran => (Len(log) = Len(config) /\ pc = "done")
  /\ Done => cleaned.ran

\* C29: pass ordering.  In a pass over a non-empty list the agents are
\* attempted in declaration order, the cleanup starts only after every
\* declared entry was attempted, however many failed, and every pass that
\* returns has invoked the cleanup exactly once.
C29_PassOrdering == given = "array" => PassInOrder

\* the part of C29 for the lists none of whose entries is null
C29_OrderingOfObjects ==
  (given = "array" /\ \A n \in 1..Len(config) : config[n] # null) => PassInOrder

\* the instructions a declaration resolves to: the content of its
\* instructionsFile if it names one, else its inline instructions
ResolvedInstructions(agentConfig) ==
  IF TruthyPath(agentConfig, "instructionsFile")
    THEN Files[resolve(ConfigDir, agentConfig.instructionsFile)]
    ELSE agentConfig.instructions

\* non-empty after trimming and of at most 10,000 characters
WithinLimit(text) == text \notin {"", " "} /\ Len(text) <= 10000

\* the last syncAgent call was for a declaration that passes validateAgentConfig
\* and whose instructionsFile, if any, exists
LastResolved ==
  /\ last.ran
  /\ ~MissingRequired(last.agentConfig)
  /\ TruthyPath(last.agentConfig, "instructionsFile") =>
       resolve(ConfigDir, last.agentConfig.instructionsFile) \in DOMAIN Files

\* C30: instructions validation.  Every stored system-owned agent has
\* instructions that are non-empty after trimming and of at most 10,000
\* characters; a syncAgent call fails in the loading step exactly when the
\* resolved instructions are not, and then it has issued no store call and
\* the record is as it was.
C30_InstructionsValidated ==
  /\ \A k \in findAgents(agents, Sys) :
       /\ Has(agents[k], "instructions")
       /\ WithinLimit(agents[k].instructions.text)
  /\ LastResolved =>
       /\ last.step = "load" <=> ~WithinLimit(ResolvedInstructions(last.agentConfig))
       /\ last.step = "load" =>
            /\ ~last.ok
            /\ last.agentCalls = 0
            /\ last.synced = <<>>
            /\ IF last.existed
                 THEN LastKey \in DOMAIN agents /\ agents[LastKey] = last.before
                 ELSE LastKey \notin DOMAIN agents

\* C30 witness: in one pass agent a was stored with instructions of exactly
\* 10,000 characters and agent b, declared with 10,001 characters, failed in
\* the loading step and is not stored
C30_Witness ==
  /\ last.ran /\ ~last.ok
  /\ last.agentConfig.id = "b"
  /\ last.step = "load"
  /\ Len(ResolvedInstructions(last.agentConfig)) = 10001
  /\ ~agentExists(agents, "b", Sys)
  /\ agentExists(agents, "a", Sys)
  /\ Len(getAgent(agents, "a", Sys).instructions.text) = 10000

\* validateActionSpec has answered for a spec text
ValidatedText == probe.fn = "validateActionSpec" /\ probe.done

\* C31: validateActionSpec reports a spec text valid if and only if it parses
\* to an object that has an openapi or swagger version, an info object, and at
\* least one of paths and components.
C31_ValidIffInfoObject ==
  ValidatedText =>
    (probe.valid <=>
       /\ probe.arg.parses
       /\ probe.arg.isObject
       /\ (TruthyValue(probe.arg, "openapi") \/ TruthyValue(probe.arg, "swagger"))
       /\ Has(probe.arg, "info") /\ probe.arg.info.t = "obj"
       /\ (TruthyValue(probe.arg, "paths") \/ TruthyValue(probe.arg, "components")))

\* the part of C31 that holds: a text reported valid parses to an object with
\* a version, some non-empty info and one of paths and components, and a text
\* with an info object and the rest is reported valid
C31_ValidIffInfoGiven ==
  ValidatedText =>
    (probe.valid <=>
       /\ probe.arg.parses
       /\ probe.arg.isObject
       /\ (TruthyValue(probe.arg, "openapi") \/ TruthyValue(probe.arg, "swagger"))
       /\ TruthyValue(probe.arg, "info")
       /\ (TruthyValue(probe.arg, "paths") \/ TruthyValue(probe.arg, "components")))

\* the second part of C31: every stored action of the system owner carries a
\* spec that validateActionSpec accepts
C31_InvalidNeverUpserted ==
  \A k \in DOMAIN actions :
    actions[k].user = Sys => validateActionSpec(actions[k].metadata.raw_spec)

C33_ActionIdInjective ==
  Done =>
    \A n \in 1..Len(config) :
      log[n].ok =>
        \A i \in 1..Len(config[n].actions) :
          LET k == ActionKey(generateActionId(config[n].actions[i].domain, config[n].id), Sys)
          IN /\ k \in DOMAIN actions
             /\ actions[k].agent_id = config[n].id
             /\ actions[k].metadata.domain = config[n].actions[i].domain

\* the part of C33 that holds: each stored action of the system owner is
\* stored under the id generated from its own domain and agent_id
C33_StoredUnderGeneratedId ==
  \A k \in DOMAIN actions :
    k[2] = Sys =>
      actions[k].action_id = generateActionId(actions[k].metadata.domain, actions[k].agent_id)

\* the action id occurs in the list of action ids
Lists(ids, action_id) == \E n \in 1..Len(ids) : ids[n] = action_id

\* C34: after any completed pass, every action record of the system owner
\* names as its agent_id an existing agent record of the system owner whose
\* action-id list contains the id of the action.
C34_ReferentialIntegrity ==
  Done =>
    \A k \in DOMAIN actions :
      k[2] = Sys =>
        /\ agentExists(agents, actions[k].agent_id, Sys)
        /\ Lists(getAgent(agents, actions[k].agent_id, Sys).actions, actions[k].action_id)

\* the cleanup of the pass returned
CleanupReturned == cleaned.ran /\ (IF Has(cleaned, "threw") THEN ~cleaned.threw ELSE TRUE)

\* the positions of the declared list whose syncAgent call threw
FailedAt == {n \in 1..Len(log) : ~log[n].ok}

\* C35: a pass over a non-empty list of n well-formed entries whose cleanup
\* does not throw returns syncedCount + length(errors) = n, each entry counted
\* in exactly one of the two, and errors names the failed agents in
\* declaration order.
C35_ResultAccounting ==
  (Done /\ CleanupReturned) =>
    /\ results.syncedCount + Len(results.errors) = Len(config)
    /\ results.syncedCount = Cardinality((1..Len(config)) \ FailedAt)
    /\ Len(results.errors) = Cardinality(FailedAt)
    /\ \A i \in 1..Len(results.errors) :
         \E n \in FailedAt :
           /\ Cardinality({m \in FailedAt : m < n}) = i - 1
           /\ results.errors[i].agentId = config[n].id

\* C35 witness: a pass over [a, b] has returned after its cleanup; a failed
\* and b synced
C35_Witness ==
  /\ Done /\ CleanupReturned
  /\ Len(config) = 2
  /\ ~log[1].ok /\ log[2].ok
  /\ results.syncedCount = 1
  /\ Len(results.errors) = 1
  /\ results.errors[1].agentId = config[1].id

\* the pass left the loop at a null entry, or the listing of the stored agents
\* threw in its cleanup
PassAborted ==
  \/ Len(log) < Len(config)
  \/ (cleaned.ran /\ cleaned.threw)

\* C36: syncDefaultAgents never propagates an exception: whatever fails
\* (validation, file load, a store call, the listing of the stored agents, a
\* null entry of the declared list), the call goes on to return a result
\* object, and the syncedCount accumulated before the failure is in it.
C36_AlwaysReturnsResult ==
  /\ pc \in {"idle", "sync", "done"}
  /\ pc = "sync" => (idx <= Len(config) + 1 /\ ENABLED (SyncNext \/ SyncAbort \/ SyncCleanup))
  /\ DOMAIN results = {"success", "syncedCount", "removedCount", "errors"}
  /\ results.syncedCount = Cardinality({n \in 1..Len(log) : log[n].ok})
  /\ Done =>
       /\ Len(results.errors) >= Cardinality({n \in 1..Len(log) : ~log[n].ok})
       /\ PassAborted =>
            /\ ~results.success
            /\ Last(results.errors) = [type |-> "sync_failure"]

\* C36 witness: the pass over [a, null, b] has returned after a had synced;
\* the result counts a and carries the failure
C36_Witness ==
  /\ pc = "done"
  /\ Len(config) = 3 /\ config[2] = null
  /\ Len(log) = 1 /\ log[1].ok
  /\ results.syncedCount = 1
  /\ ~results.success
  /\ Last(results.errors) = [type |-> "sync_failure"]

\* C36 witness: the listing of the stored agents threw after one agent had
\* synced and one had failed; the result keeps both and carries the failure
C36_WitnessCleanup ==
  /\ pc = "done"
  /\ cleaned.ran /\ cleaned.threw
  /\ results.syncedCount = 1
  /\ Len(results.errors) = 2
  /\ Last(results.errors) = [type |-> "sync_failure"]

\* C37: no pass modifies or deletes an agent record whose author, or an action
\* record whose user, is not the system owner, even when the record has the id
\* of a declared or orphaned agent.
C37_OnlySystemRecords ==
  [][/\ \A k \in DOMAIN agents :
          k[2] # Sys => (k \in DOMAIN agents' /\ agents'[k] = agents[k])
     /\ \A k \in DOMAIN actions :
          k[2] # Sys => (k \in DOMAIN actions' /\ actions'[k] = actions[k])]_vars

\* the part of C37 that holds: no pass deletes a record of another owner or
\* changes an action record of another owner
C37_NoForeignDeleteOrActionWrite ==
  [][/\ \A k \in DOMAIN agents : k[2] # Sys => k \in DOMAIN agents'
     /\ \A k \in DOMAIN actions :
          k[2] # Sys => (k \in DOMAIN actions' /\ actions'[k] = actions[k])]_vars

\* the field values createDefaultAgent / updateDefaultAgent write for the
\* declaration of the last syncAgent call
LastWritten ==
  agentData(last.agentConfig, loadAgentFileContent(last.agentConfig).instructions,
            loadAgentFileContent(last.agentConfig).avatar)

\* C38: the hash agrees with what is persisted: a declaration that would
\* write to the agent record the field values the record already holds (for
\* example category "general" where the category had been left out, or
\* tools [] where the tools had been left out) has the hash of the latest
\* version, so syncing it updates nothing and appends no version.
C38_HashAgreesWithPersisted ==
  (/\ last.ran /\ last.ok /\ last.existed
   /\ Pick(last.before, DOMAIN LastWritten) = LastWritten) =>
    /\ LatestHash(last.before) = HashOf(last.agentConfig)
    /\ agents[LastKey].versions = last.before.versions

\* the last syncAgent call belongs to a pass over the list of the pass before,
\* which had ended with nothing failing, and found its agent stored
SecondUnchangedPass ==
  /\ last.ran /\ last.ok /\ last.existed
  /\ snap0.clean /\ snap0.same

\* C39: for an agent declared with iconFile, a second pass over the unchanged
\* declaration and icon file computes the hash of the first pass: the latest
\* version keeps its hash and no version is appended.
C39_IconHashStable ==
  (SecondUnchangedPass /\ Has(last.agentConfig, "iconFile")) =>
    /\ agents[LastKey].versions = last.before.versions
    /\ LatestHash(agents[LastKey]) = LatestHash(last.before)

\* the part of C39 that holds: without an icon file, a second pass over the
\* unchanged declaration appends no version
C39_StableWithoutIconFile ==
  (SecondUnchangedPass /\ ~Has(last.agentConfig, "iconFile")) =>
    /\ agents[LastKey].versions = last.before.versions
    /\ LatestHash(agents[LastKey]) = LatestHash(last.before)

====
